---------------------------- MODULE Spec2Model ----------------------------
(***************************************************************************)
(* A model of the Foodstory bill importer (db_manager.py, app.py).         *)
(*                                                                         *)
(* Text is modelled as a sequence of characters.  An ASCII character is    *)
(* the one-character string itself; any other code point is written        *)
(* "Uxxxx" (its hexadecimal code point).  A Python value that may be a     *)
(* string, a number or a null (None / NaN / NaT) is a record: Str(s),      *)
(* Num(v) or Null.  A REAL number is kept in tenths (Num(125) is 12.5),    *)
(* so that the truncation of astype(int) is visible.                       *)
(***************************************************************************)
EXTENDS Integers, Sequences, FiniteSets, TLC

VARIABLES
    arg,    \* the argument of the pure routine under test
    res,    \* its result
    res2,   \* the result of feeding res back through the routine
    pc,     \* position of the driver: "start", "once", "twice"; "idle" for the store
    schema, \* table name -> the column definitions of the table, or NoTable
    rows,   \* table name -> the committed rows of the table, oldest first
    file,   \* table name -> the dataframe read from the uploaded file
    call,   \* the last import made and what it returned
    imports, \* the number of imports made so far
    conns,  \* the connections to the database that are open
    session_state \* the overview tables the dashboard keeps across runs

store == <<schema, rows, file, call, imports, conns, session_state>>

vars == <<arg, res, res2, pc, schema, rows, file, call, imports, conns, session_state>>

\* the drivers of the pure routines leave the store out
NoStore ==
    /\ schema = <<>>
    /\ rows = <<>>
    /\ file = <<>>
    /\ call = <<>>
    /\ imports = 0
    /\ conns = {}
    /\ session_state = <<>>

-----------------------------------------------------------------------------
(* Python values *)

Null == [t |-> "null"]
Str(s) == [t |-> "str", s |-> s]
\* a float, in tenths
Num(v) == [t |-> "num", v |-> v]
\* an int
PyInt(n) == [t |-> "int", v |-> n]
\* the float inf
Inf == [t |-> "inf"]

\* pd.isna(x) for a scalar
isna(x) == x.t = "null"
\* isinstance(x, str)
isstr(x) == x.t = "str"

-----------------------------------------------------------------------------
(* Characters and the str methods the code uses *)

DigitSeq == <<"0", "1", "2", "3", "4", "5", "6", "7", "8", "9">>
Digit == {DigitSeq[i] : i \in 1..10}
DigitVal(c) == (CHOOSE i \in 1..10 : DigitSeq[i] = c) - 1

UpperAlpha == <<"A", "B", "C", "D", "E", "F", "G", "H", "I", "J", "K", "L", "M",
                "N", "O", "P", "Q", "R", "S", "T", "U", "V", "W", "X", "Y", "Z">>
LowerAlpha == <<"a", "b", "c", "d", "e", "f", "g", "h", "i", "j", "k", "l", "m",
                "n", "o", "p", "q", "r", "s", "t", "u", "v", "w", "x", "y", "z">>
AsciiUpper == {UpperAlpha[i] : i \in 1..26}
AsciiLower == {LowerAlpha[i] : i \in 1..26}

\* Thai letters (category Lo) and Thai marks (category Mn) of the long
\* voucher header of the two column mappings.
ThaiLetter == {"U0E01", "U0E02", "U0E04", "U0E07", "U0E08", "U0E0A", "U0E14",
               "U0E17", "U0E19", "U0E1A", "U0E1B", "U0E21", "U0E22", "U0E23",
               "U0E25", "U0E27", "U0E2A", "U0E2D", "U0E30", "U0E32", "U0E40",
               "U0E42", "U0E43", "U0E44"}
ThaiMark == {"U0E31", "U0E34", "U0E35", "U0E36", "U0E38", "U0E39", "U0E47",
             "U0E48", "U0E49", "U0E4D"}

\* U00A0 no-break space; U0301 combining acute; U0307 combining dot above;
\* U00D3 / U00F3 O / o with acute; U00E1 a with acute; U00CD / U00ED I / i
\* with acute; U0130 capital I with dot above; U0E33 Thai sara am;
\* UFF21 / UFF2E fullwidth A / N.
Space == {" ", "TAB", "U00A0"}

\* what the regex class \s matches
IsSpace(c) == c \in Space
\* what the regex class \d matches
IsDigit(c) == c \in Digit
\* what the regex class \w matches: letters, digits and the underscore,
\* never a combining mark (category Mn)
IsWord(c) ==
    c \in Digit \cup AsciiUpper \cup AsciiLower \cup ThaiLetter
         \cup {"_", "U00D3", "U00F3", "U00E1", "U00CD", "U00ED", "U0130",
               "UFF21", "UFF2E"}

\* str.lower() of one character: a sequence, since U0130 lowers to two
LowerChar(c) ==
    IF c \in AsciiUpper
    THEN <<LowerAlpha[CHOOSE i \in 1..26 : UpperAlpha[i] = c]>>
    ELSE IF c = "U00D3" THEN <<"U00F3">>
    ELSE IF c = "U00CD" THEN <<"U00ED">>
    ELSE IF c = "U0130" THEN <<"i", "U0307">>
    ELSE IF c = "UFF21" THEN <<"UFF41">>
    ELSE IF c = "UFF2E" THEN <<"UFF4E">>
    ELSE <<c>>

\* the first and the second half of a text: the routines that work character
\* by character are written over halves
Left(s) == SubSeq(s, 1, Len(s) \div 2)
Right(s) == SubSeq(s, (Len(s) \div 2) + 1, Len(s))

RECURSIVE lower(_)
lower(s) ==
    IF s = <<>> THEN <<>>
    ELSE IF Len(s) = 1 THEN LowerChar(s[1])
    ELSE lower(Left(s)) \o lower(Right(s))

RECURSIVE lstrip(_)
lstrip(s) == IF s # <<>> /\ IsSpace(Head(s)) THEN lstrip(Tail(s)) ELSE s

RECURSIVE rstrip(_)
rstrip(s) ==
    IF s # <<>> /\ IsSpace(s[Len(s)]) THEN rstrip(SubSeq(s, 1, Len(s) - 1)) ELSE s

strip(s) == rstrip(lstrip(s))

\* int(s) of a string of digits
RECURSIVE ToInt(_)
ToInt(s) ==
    IF s = <<>> THEN 0 ELSE 10 * ToInt(SubSeq(s, 1, Len(s) - 1)) + DigitVal(s[Len(s)])

\* str(n) of a natural number
RECURSIVE IntToStr(_)
IntToStr(n) ==
    IF n < 10 THEN <<DigitSeq[n + 1]>>
    ELSE IntToStr(n \div 10) \o <<DigitSeq[(n % 10) + 1]>>

\* the format specs {n:02d} and {n:04d}
Pad2(n) == IF n < 10 THEN <<"0">> \o IntToStr(n) ELSE IntToStr(n)
RECURSIVE PadTo(_, _)
PadTo(s, w) == IF Len(s) < w THEN PadTo(<<"0">> \o s, w) ELSE s

\* the pieces of a regex match
RECURSIVE DigitRunEnd(_, _)
DigitRunEnd(s, i) ==
    IF i <= Len(s) /\ IsDigit(s[i]) THEN DigitRunEnd(s, i + 1) ELSE i

RECURSIVE SpaceRunEnd(_, _)
SpaceRunEnd(s, i) ==
    IF i <= Len(s) /\ IsSpace(s[i]) THEN SpaceRunEnd(s, i + 1) ELSE i

HasLit(s, i, lit) ==
    /\ i >= 1
    /\ i + Len(lit) - 1 <= Len(s)
    /\ SubSeq(s, i, i + Len(lit) - 1) = lit

DigitsAt(s, i, n) == /\ i + n - 1 <= Len(s)
                     /\ \A j \in i..(i + n - 1) : IsDigit(s[j])

Contains(s, lit) == \E i \in 1..Len(s) : HasLit(s, i, lit)

Min(S) == CHOOSE x \in S : \A y \in S : x <= y

-----------------------------------------------------------------------------
(* format_time_string_for_storage *)

\* re.match(r'(\d{1,2}):(\d{2}):(\d{2})', s) with k digits of hour
HmsAt(s, k) ==
    /\ DigitsAt(s, 1, k)
    /\ HasLit(s, k + 1, <<":">>)
    /\ DigitsAt(s, k + 2, 2)
    /\ HasLit(s, k + 4, <<":">>)
    /\ DigitsAt(s, k + 5, 2)

\* the hour group is greedy: two digits are tried before one
match_hms(s) ==
    IF HmsAt(s, 2) THEN <<2>> ELSE IF HmsAt(s, 1) THEN <<1>> ELSE <<>>

\* re.match(r'(\d{1,2}):(\d{2})', s) with k digits of hour
HmAt(s, k) ==
    /\ DigitsAt(s, 1, k)
    /\ HasLit(s, k + 1, <<":">>)
    /\ DigitsAt(s, k + 2, 2)

match_hm(s) ==
    IF HmAt(s, 2) THEN <<2>> ELSE IF HmAt(s, 1) THEN <<1>> ELSE <<>>

HourWord == <<"h", "o", "u", "r">>
MinWord == <<"m", "i", "n">>

\* (\d+)\s*hour at position i: the position after "hour", or 0
HourPhraseAt(s, i) ==
    IF i <= Len(s) /\ IsDigit(s[i])
       /\ HasLit(s, SpaceRunEnd(s, DigitRunEnd(s, i)), HourWord)
    THEN SpaceRunEnd(s, DigitRunEnd(s, i)) + 4
    ELSE 0

\* (\d+)\s*min at position i (the optional "ute" and "s" bind nothing)
MinPhraseAt(s, i) ==
    /\ i <= Len(s)
    /\ IsDigit(s[i])
    /\ HasLit(s, SpaceRunEnd(s, DigitRunEnd(s, i)), MinWord)

\* (\d+)\s*hour(?:s)?\s*(\d+)\s*min at position i: the start of the minute
\* digits, or 0.  The optional "s" is taken when present; leaving it out
\* cannot match, since a digit or a space must follow.
HourMinAt(s, i) ==
    LET e == HourPhraseAt(s, i)
        a == IF e # 0 /\ e <= Len(s) /\ s[e] = "s" THEN e + 1 ELSE e
        b == SpaceRunEnd(s, a)
    IN  IF e # 0 /\ MinPhraseAt(s, b) THEN b ELSE 0

NumberAt(s, i) == ToInt(SubSeq(s, i, DigitRunEnd(s, i) - 1))

\* a slip in the unit of the minutes
HourMinSeconds_NoMinuteUnit(hours, minutes) == hours * 3600 + minutes

\* hours * 3600 + minutes * 60 of the "X hour Y min" branch
HourMinSeconds(hours, minutes) == hours * 3600 + minutes * 60

\* the duration branch (Case 3): total_seconds; re.search finds the
\* leftmost position at which the pattern matches
duration_seconds(s) ==
    LET hm == {i \in 1..Len(s) : HourMinAt(s, i) # 0}
        mn == {i \in 1..Len(s) : MinPhraseAt(s, i)}
        hr == {i \in 1..Len(s) : HourPhraseAt(s, i) # 0}
    IN  IF hm # {}
        THEN HourMinSeconds(NumberAt(s, Min(hm)), NumberAt(s, HourMinAt(s, Min(hm))))
        ELSE IF hr # {} THEN NumberAt(s, Min(hr)) * 3600
        ELSE IF mn # {} THEN NumberAt(s, Min(mn)) * 60
        ELSE 0

Colon == <<":">>
ZeroTime == <<"0", "0", ":", "0", "0", ":", "0", "0">>

\* f"{h:02d}:{m:02d}:{s:02d}"
RenderHMS(h, m, s) == Pad2(h) \o Colon \o Pad2(m) \o Colon \o Pad2(s)

RenderSeconds(total) ==
    RenderHMS(total \div 3600, (total % 3600) \div 60, total % 60)

format_time_string_for_storage(t_str) ==
    IF isna(t_str) \/ ~isstr(t_str) THEN ZeroTime
    ELSE
      LET s == lower(strip(t_str.s))
          k3 == match_hms(s)
          k2 == match_hm(s)
          total == duration_seconds(s)
      IN  IF k3 # <<>>
          THEN LET k == k3[1]
               IN  RenderHMS(ToInt(SubSeq(s, 1, k)),
                             ToInt(SubSeq(s, k + 2, k + 3)),
                             ToInt(SubSeq(s, k + 5, k + 6)))
          ELSE IF k2 # <<>>
          THEN LET k == k2[1]
               IN  RenderHMS(ToInt(SubSeq(s, 1, k)), ToInt(SubSeq(s, k + 2, k + 3)), 0)
          ELSE IF total > 0 THEN RenderSeconds(total)
          ELSE ZeroTime

-----------------------------------------------------------------------------
(* Inputs of the time routine.  Each input carries the shape it was built   *)
(* from (shape, n, m, sec) beside the value x that is passed to the code.   *)

MaxCount == 12
Counts == 0..MaxCount
BigCounts == {57, 59, 60, 61, 90, 99, 100, 120, 6000}
DurCounts == Counts \cup BigCounts

Sp == <<" ">>
Chars_hour == <<"h", "o", "u", "r">>
Chars_hours == <<"h", "o", "u", "r", "s">>
Chars_Hour == <<"H", "o", "u", "r">>
Chars_min == <<"m", "i", "n">>
Chars_mins == <<"m", "i", "n", "s">>
Chars_Mins == <<"M", "i", "n", "s">>
Chars_minutes == <<"m", "i", "n", "u", "t", "e", "s">>
Chars_pm == <<" ", "p", "m">>
Chars_nan == <<"n", "a", "n">>
Chars_abc == <<"a", "b", "c">>

DurStyles == 1..3

\* "5 hour", "5hours", " 5 Hour "
HourText(n, style) ==
    IF style = 1 THEN IntToStr(n) \o Sp \o Chars_hour
    ELSE IF style = 2 THEN IntToStr(n) \o Chars_hours
    ELSE Sp \o IntToStr(n) \o Sp \o Chars_Hour \o Sp

\* "5 min", "5minutes", " 5 Mins "
MinText(n, style) ==
    IF style = 1 THEN IntToStr(n) \o Sp \o Chars_min
    ELSE IF style = 2 THEN IntToStr(n) \o Chars_minutes
    ELSE Sp \o IntToStr(n) \o Sp \o Chars_Mins \o Sp

\* "1 hour 57 min", "1hours57minutes", " 1 Hour  57 Mins "
HourMinText(n, m, style) ==
    IF style = 1 THEN HourText(n, 1) \o Sp \o MinText(m, 1)
    ELSE IF style = 2 THEN HourText(n, 2) \o MinText(m, 2)
    ELSE HourText(n, 3) \o MinText(m, 3)

ClockHours == {0, 5, 9, 14, 23, 99}
ClockMinutes == {0, 5, 59, 99}
ClockSeconds == {0, 30, 59}

TwoDigits(n) == <<DigitSeq[(n \div 10) + 1], DigitSeq[(n % 10) + 1]>>

TimeIn(shape, n, m, sec, text) ==
    [fn |-> "time", shape |-> shape, n |-> n, m |-> m, sec |-> sec, x |-> text]

ClockInputs ==
    {TimeIn("hms", h, m, s, Str(TwoDigits(h) \o Colon \o TwoDigits(m) \o Colon \o TwoDigits(s))) :
        h \in ClockHours, m \in ClockMinutes, s \in ClockSeconds}
    \cup
    {TimeIn("hms", h, m, s, Str(IntToStr(h) \o Colon \o TwoDigits(m) \o Colon \o TwoDigits(s))) :
        h \in ClockHours, m \in ClockMinutes, s \in ClockSeconds}
    \cup
    {TimeIn("hm", h, m, 0, Str(TwoDigits(h) \o Colon \o TwoDigits(m))) :
        h \in ClockHours, m \in ClockMinutes}
    \cup
    {TimeIn("hm", h, m, 0, Str(Sp \o IntToStr(h) \o Colon \o TwoDigits(m) \o Chars_pm)) :
        h \in ClockHours, m \in ClockMinutes}

DurationInputs ==
    {TimeIn("hour_min", n, m, 0, Str(HourMinText(n, m, st))) :
        n \in DurCounts, m \in DurCounts, st \in DurStyles}
    \cup
    {TimeIn("min", 0, m, 0, Str(MinText(m, st))) : m \in DurCounts, st \in DurStyles}
    \cup
    {TimeIn("hour", n, 0, 0, Str(HourText(n, st))) : n \in DurCounts, st \in DurStyles}

\* strings of no recognised shape, a null and a number
OtherInputs ==
    {TimeIn("other", 0, 0, 0, v) :
        v \in {Str(<<>>), Str(Chars_abc), Str(Chars_nan), Str(Chars_hour),
               Str(Chars_min \o Sp \o <<"5">>),
               Str(<<"1", "2", ":", "3">>), Str(<<"1", ":", "2", ":", "3">>),
               Str(<<"1", "2", ".", "3", "0">>),
               Str(<<"1", "2", "3", ":", "4", "5", ":", "0", "6">>),
               Str(<<"1", "0", "0", ":", "0", "0", ":", "0", "0">>),
               Null, Num(5)}}

\* a minute phrase with an hour phrase behind it: "30 min 2 hour",
\* "30minutes2hours"
PhraseInputs ==
    {TimeIn("min_hour", n, m, 0, Str(MinText(m, st) \o Sp \o HourText(n, st))) :
        n \in DurCounts, m \in DurCounts, st \in {1, 2}}

TimeInputs == ClockInputs \cup DurationInputs \cup PhraseInputs \cup OtherInputs

-----------------------------------------------------------------------------
(* The driver of the time routine: apply it, then apply it to its result *)

InitTime ==
    /\ arg \in TimeInputs
    /\ res = <<>>
    /\ res2 = <<>>
    /\ pc = "start"
    /\ NoStore

FormatTime ==
    /\ pc = "start"
    /\ arg.fn = "time"
    /\ res' = format_time_string_for_storage(arg.x)
    /\ pc' = "once"
    /\ UNCHANGED <<arg, res2, store>>

ReformatTime ==
    /\ pc = "once"
    /\ arg.fn = "time"
    /\ res2' = format_time_string_for_storage(Str(res))
    /\ pc' = "twice"
    /\ UNCHANGED <<arg, res, store>>

NextTime == FormatTime \/ ReformatTime

SpecTime == InitTime /\ [][NextTime]_vars

\* C1: format_time_string_for_storage is idempotent: feeding its output
\* back through it returns the same string, for every input.
C1_TimeIdempotent == (pc = "twice" /\ arg.fn = "time") => res2 = res

\* The reference value of each recognised shape: hours, minutes, seconds.
RefClock(h, m, s) ==
    (IF h < 100 THEN TwoDigits(h) ELSE IntToStr(h))
        \o Colon \o TwoDigits(m) \o Colon \o TwoDigits(s)

RefSeconds(total) ==
    RefClock(total \div 3600, (total \div 60) % 60, total % 60)

RefTime(a) ==
    IF a.shape = "hms" THEN RefClock(a.n, a.m, a.sec)
    ELSE IF a.shape = "hm" THEN RefClock(a.n, a.m, 0)
    ELSE IF a.shape = "hour_min" THEN RefSeconds(a.n * 3600 + a.m * 60)
    ELSE IF a.shape = "min" THEN RefSeconds(a.m * 60)
    ELSE IF a.shape = "hour" THEN RefSeconds(a.n * 3600)
    ELSE ZeroTime

\* C9: each recognised shape maps to its reference value: a clock time
\* H:MM:SS or HH:MM:SS to itself zero-padded, HH:MM to HH:MM:00, "N hour M
\* min" to N*3600+M*60 seconds, "N min" to N*60 seconds, "N hour" to N*3600
\* seconds, each rendered as hours:minutes:seconds; every other string and
\* every null or non-string input maps to 00:00:00.
C9_TimeReference ==
    (pc # "start" /\ arg.fn = "time" /\ arg.shape # "min_hour") => res = RefTime(arg)

\* C21: the duration phrases are taken in the order "N hour M min", then
\* "N min", then "N hour": a string that is no clock time and holds no
\* "N hour M min" but holds an "N min" is rendered as N minutes, also when
\* a "K hour" stands behind the minutes; the hour phrase decides only when
\* there is no minute phrase.
C21_PhrasePriority ==
    (pc # "start" /\ arg.fn = "time") =>
        /\ arg.shape = "min_hour" => res = RefSeconds(arg.m * 60)
        /\ arg.shape = "min" => res = RefSeconds(arg.m * 60)
        /\ arg.shape = "hour" => res = RefSeconds(arg.n * 3600)

\* "1 hour 90 min" has been rendered with its minutes carried: 02:30:00
C9_Witness ==
    /\ pc = "once"
    /\ arg.fn = "time"
    /\ arg.shape = "hour_min"
    /\ arg.n = 1
    /\ arg.m = 90
    /\ res = <<"0", "2", ":", "3", "0", ":", "0", "0">>

-----------------------------------------------------------------------------
(* The column mappings *)

\* The header text of each destination column, as the keys of the two
\* mappings spell it.
HeaderText ==
    [
     payment_date |->
          <<"P", "a", "y", "m", "e", "n", "t", " ", "D", "a", "t", "e">>,
     payment_time |->
          <<"P", "a", "y", "m", "e", "n", "t", " ", "T", "i", "m", "e">>,
     time_col |->
          <<"T", "i", "m", "e">>,
     receipt_number |->
          <<"R", "e", "c", "e", "i", "p", "t", " ", "N", "u", "m", "b",
            "e", "r">>,
     pos_id |->
          <<"P", "O", "S", " ", "I", "D">>,
     inv_no |->
          <<"I", "N", "V", ".", " ", "N", "o">>,
     summary_price |->
          <<"S", "u", "m", "m", "a", "r", "y", " ", "P", "r", "i", "c",
            "e">>,
     discount_by_item |->
          <<"D", "i", "s", "c", "o", "u", "n", "t", " ", "B", "y", " ",
            "I", "t", "e", "m">>,
     subtotal_bill_discount |->
          <<"S", "u", "b", "t", "o", "t", "a", "l", " ", "B", "i", "l",
            "l", " ", "D", "i", "s", "c", "o", "u", "n", "t">>,
     subtotal_summary_price_minus_discount_by_item |->
          <<"S", "u", "b", "t", "o", "t", "a", "l", " ", "S", "u", "m",
            "m", "a", "r", "y", " ", "P", "r", "i", "c", "e", " ", "-",
            " ", "D", "i", "s", "c", "o", "u", "n", "t", " ", "B", "y",
            " ", "I", "t", "e", "m">>,
     service_charge |->
          <<"S", "e", "r", "v", "i", "c", "e", " ", "c", "h", "a", "r",
            "g", "e">>,
     non_vat |->
          <<"N", "o", "n", " ", "V", "A", "T">>,
     ex_vat |->
          <<"E", "x", ".", " ", "V", "A", "T">>,
     before_vat_subtotal_plus_service_charge |->
          <<"B", "e", "f", "o", "r", "e", " ", "V", "a", "t", " ", "S",
            "u", "b", "t", "o", "t", "a", "l", " ", "+", " ", "S", "e",
            "r", "v", "i", "c", "e", " ", "c", "h", "a", "r", "g", "e">>,
     vat |->
          <<"V", "A", "T">>,
     voucher_amount_desc |->
          <<"V", "o", "u", "c", "h", "e", "r", " ", "A", "m", "o", "u",
            "n", "t", " ", "U0E21", "U0E39", "U0E25", "U0E04", "U0E48", "U0E32", " ", "V", "o",
            "u", "c", "h", "e", "r", " ", "U0E21", "U0E35", "U0E42", "U0E2D", "U0E01", "U0E32",
            "U0E2A", "U0E17", "U0E35", "U0E48", "U0E08", "U0E30", "U0E21", "U0E32", "U0E01", "U0E01", "U0E27", "U0E48",
            "U0E32", "U0E22", "U0E2D", "U0E14", "U0E23", "U0E27", "U0E21", "U0E17", "U0E31", "U0E49", "U0E07", "U0E1A",
            "U0E34", "U0E25", " ", "U0E2A", "U0E48", "U0E27", "U0E19", "U0E25", "U0E14", "U0E17", "U0E35", "U0E48",
            "U0E43", "U0E0A", "U0E49", "U0E44", "U0E14", "U0E49", "U0E2A", "U0E39", "U0E07", "U0E2A", "U0E38", "U0E14",
            "U0E08", "U0E36", "U0E07", "U0E40", "U0E1B", "U0E47", "U0E19", "U0E22", "U0E2D", "U0E14", "U0E23", "U0E27",
            "U0E21", "U0E02", "U0E2D", "U0E07", "U0E1A", "U0E34", "U0E25">>,
     voucher_discount |->
          <<"V", "o", "u", "c", "h", "e", "r", " ", "D", "i", "s", "c",
            "o", "u", "n", "t">>,
     rounding_amt |->
          <<"R", "o", "u", "d", "i", "n", "g", " ", "a", "m", "o", "u",
            "n", "t">>,
     delivery_fee |->
          <<"D", "e", "l", "i", "v", "e", "r", "y", " ", "F", "e", "e">>,
     total_final_bill |->
          <<"T", "o", "t", "a", "l", " ", "(", "B", "e", "f", "o", "r",
            "e", " ", "V", "a", "t", " ", "+", " ", "V", "A", "T", " ",
            "+", " ", "R", "o", "u", "d", "i", "n", "g", " ", "a", "m",
            "o", "u", "n", "t", ")", " ", "-", " ", "N", "o", "n", "-",
            "V", "A", "T", " ", "a", "m", "o", "u", "n", "t">>,
     tips |->
          <<"T", "i", "p", "s">>,
     refund |->
          <<"R", "e", "f", "u", "n", "d">>,
     order_type |->
          <<"O", "r", "d", "e", "r", " ", "T", "y", "p", "e">>,
     drawer_id |->
          <<"D", "r", "a", "w", "e", "r", " ", "I", "D">>,
     payment_type |->
          <<"P", "a", "y", "m", "e", "n", "t", " ", "T", "y", "p", "e">>,
     custom_payment_ref |->
          <<"C", "u", "s", "t", "o", "m", " ", "P", "a", "y", "m", "e",
            "n", "t", " ", "R", "e", "f", ".">>,
     channel |->
          <<"C", "h", "a", "n", "n", "e", "l">>,
     table_num |->
          <<"T", "a", "b", "l", "e">>,
     seat_amount |->
          <<"S", "e", "a", "t", " ", "A", "m", "o", "u", "n", "t">>,
     customer_name |->
          <<"C", "u", "s", "t", "o", "m", "e", "r", " ", "N", "a", "m",
            "e">>,
     remark |->
          <<"R", "e", "m", "a", "r", "k">>,
     promotion_code |->
          <<"P", "r", "o", "m", "o", "t", "i", "o", "n", " ", "C", "o",
            "d", "e">>,
     bill_open_by |->
          <<"B", "i", "l", "l", " ", "o", "p", "e", "n", " ", "b", "y">>,
     bill_close_by |->
          <<"B", "i", "l", "l", " ", "c", "l", "o", "s", "e", " ", "b",
            "y">>,
     branch |->
          <<"B", "r", "a", "n", "c", "h">>,
     menu_code |->
          <<"M", "e", "n", "u", " ", "C", "o", "d", "e">>,
     menu_name |->
          <<"M", "e", "n", "u", " ", "N", "a", "m", "e">>,
     quantity |->
          <<"Q", "u", "a", "n", "t", "i", "t", "y">>,
     price_per_unit |->
          <<"P", "r", "i", "c", "e", " ", "p", "e", "r", " ", "u", "n",
            "i", "t">>,
     discount_by_item_percent |->
          <<"D", "i", "s", "c", "o", "u", "n", "t", " ", "B", "y", " ",
            "I", "t", "e", "m", " ", "P", "e", "r", "c", "e", "n", "t">>,
     discounted_price |->
          <<"D", "i", "s", "c", "o", "u", "n", "t", "e", "d", " ", "P",
            "r", "i", "c", "e">>,
     vatable_type |->
          <<"V", "A", "T", "a", "b", "l", "e", " ", "t", "y", "p", "e">>,
     phone_number |->
          <<"P", "h", "o", "n", "e", " ", "N", "u", "m", "b", "e", "r">>,
     group_col |->
          <<"G", "r", "o", "u", "p">>,
     category |->
          <<"C", "a", "t", "e", "g", "o", "r", "y">>
    ]

BILLS_COLUMN_MAPPING ==
    <<
     [key |-> HeaderText.payment_date, col |-> "payment_date"],
     [key |-> HeaderText.payment_time, col |-> "payment_time"],
     [key |-> HeaderText.time_col, col |-> "time_col"],
     [key |-> HeaderText.receipt_number, col |-> "receipt_number"],
     [key |-> HeaderText.pos_id, col |-> "pos_id"],
     [key |-> HeaderText.inv_no, col |-> "inv_no"],
     [key |-> HeaderText.summary_price, col |-> "summary_price"],
     [key |-> HeaderText.discount_by_item, col |-> "discount_by_item"],
     [key |-> HeaderText.subtotal_bill_discount, col |-> "subtotal_bill_discount"],
     [key |-> HeaderText.subtotal_summary_price_minus_discount_by_item, col |-> "subtotal_summary_price_minus_discount_by_item"],
     [key |-> HeaderText.service_charge, col |-> "service_charge"],
     [key |-> HeaderText.non_vat, col |-> "non_vat"],
     [key |-> HeaderText.ex_vat, col |-> "ex_vat"],
     [key |-> HeaderText.before_vat_subtotal_plus_service_charge, col |-> "before_vat_subtotal_plus_service_charge"],
     [key |-> HeaderText.vat, col |-> "vat"],
     [key |-> HeaderText.voucher_amount_desc, col |-> "voucher_amount_desc"],
     [key |-> HeaderText.voucher_discount, col |-> "voucher_discount"],
     [key |-> HeaderText.rounding_amt, col |-> "rounding_amt"],
     [key |-> HeaderText.delivery_fee, col |-> "delivery_fee"],
     [key |-> HeaderText.total_final_bill, col |-> "total_final_bill"],
     [key |-> HeaderText.tips, col |-> "tips"],
     [key |-> HeaderText.refund, col |-> "refund"],
     [key |-> HeaderText.order_type, col |-> "order_type"],
     [key |-> HeaderText.drawer_id, col |-> "drawer_id"],
     [key |-> HeaderText.payment_type, col |-> "payment_type"],
     [key |-> HeaderText.custom_payment_ref, col |-> "custom_payment_ref"],
     [key |-> HeaderText.channel, col |-> "channel"],
     [key |-> HeaderText.table_num, col |-> "table_num"],
     [key |-> HeaderText.seat_amount, col |-> "seat_amount"],
     [key |-> HeaderText.customer_name, col |-> "customer_name"],
     [key |-> HeaderText.remark, col |-> "remark"],
     [key |-> HeaderText.promotion_code, col |-> "promotion_code"],
     [key |-> HeaderText.bill_open_by, col |-> "bill_open_by"],
     [key |-> HeaderText.bill_close_by, col |-> "bill_close_by"],
     [key |-> HeaderText.branch, col |-> "branch"]
    >>

DETAIL_BILLS_COLUMN_MAPPING ==
    <<
     [key |-> HeaderText.payment_date, col |-> "payment_date"],
     [key |-> HeaderText.payment_time, col |-> "payment_time"],
     [key |-> HeaderText.receipt_number, col |-> "receipt_number"],
     [key |-> HeaderText.inv_no, col |-> "inv_no"],
     [key |-> HeaderText.drawer_id, col |-> "drawer_id"],
     [key |-> HeaderText.menu_code, col |-> "menu_code"],
     [key |-> HeaderText.menu_name, col |-> "menu_name"],
     [key |-> HeaderText.order_type, col |-> "order_type"],
     [key |-> HeaderText.quantity, col |-> "quantity"],
     [key |-> HeaderText.price_per_unit, col |-> "price_per_unit"],
     [key |-> HeaderText.summary_price, col |-> "summary_price"],
     [key |-> HeaderText.discount_by_item, col |-> "discount_by_item"],
     [key |-> HeaderText.discount_by_item_percent, col |-> "discount_by_item_percent"],
     [key |-> HeaderText.discounted_price, col |-> "discounted_price"],
     [key |-> HeaderText.vatable_type, col |-> "vatable_type"],
     [key |-> HeaderText.channel, col |-> "channel"],
     [key |-> HeaderText.table_num, col |-> "table_num"],
     [key |-> HeaderText.customer_name, col |-> "customer_name"],
     [key |-> HeaderText.phone_number, col |-> "phone_number"],
     [key |-> HeaderText.payment_type, col |-> "payment_type"],
     [key |-> HeaderText.custom_payment_ref, col |-> "custom_payment_ref"],
     [key |-> HeaderText.remark, col |-> "remark"],
     [key |-> HeaderText.group_col, col |-> "group_col"],
     [key |-> HeaderText.category, col |-> "category"],
     [key |-> HeaderText.bill_open_by, col |-> "bill_open_by"],
     [key |-> HeaderText.bill_close_by, col |-> "bill_close_by"],
     [key |-> HeaderText.branch, col |-> "branch"],
     [key |-> HeaderText.voucher_amount_desc, col |-> "voucher_amount_desc"],
     [key |-> HeaderText.voucher_discount, col |-> "voucher_discount"],
     [key |-> HeaderText.rounding_amt, col |-> "rounding_amt"]
    >>

-----------------------------------------------------------------------------
(* unicodedata.normalize('NFKC', s) on the characters of the model *)

\* the full compatibility decomposition of one character
Decompose(c) ==
    IF c = "U00A0" THEN <<" ">>
    ELSE IF c = "UFF21" THEN <<"A">>
    ELSE IF c = "UFF2E" THEN <<"N">>
    ELSE IF c = "U0E33" THEN <<"U0E4D", "U0E32">>
    ELSE IF c = "U00F3" THEN <<"o", "U0301">>
    ELSE IF c = "U00D3" THEN <<"O", "U0301">>
    ELSE IF c = "U00E1" THEN <<"a", "U0301">>
    ELSE IF c = "U00CD" THEN <<"I", "U0301">>
    ELSE IF c = "U00ED" THEN <<"i", "U0301">>
    ELSE IF c = "U0130" THEN <<"I", "U0307">>
    ELSE <<c>>

\* the canonical combining class
Ccc(c) ==
    IF c \in {"U0301", "U0307"} THEN 230
    ELSE IF c \in {"U0E38", "U0E39"} THEN 103
    ELSE IF c \in {"U0E48", "U0E49"} THEN 107
    ELSE 0

\* the primary composite of a starter and a mark, or "" when there is none
Composite(a, b) ==
    IF a = "o" /\ b = "U0301" THEN "U00F3"
    ELSE IF a = "O" /\ b = "U0301" THEN "U00D3"
    ELSE IF a = "a" /\ b = "U0301" THEN "U00E1"
    ELSE IF a = "I" /\ b = "U0301" THEN "U00CD"
    ELSE IF a = "i" /\ b = "U0301" THEN "U00ED"
    ELSE IF a = "I" /\ b = "U0307" THEN "U0130"
    ELSE ""

RECURSIVE DecomposeAll(_)
DecomposeAll(s) ==
    IF s = <<>> THEN <<>>
    ELSE IF Len(s) = 1 THEN Decompose(s[1])
    ELSE DecomposeAll(Left(s)) \o DecomposeAll(Right(s))

\* canonical ordering: one pass that swaps the first misordered pair of marks
ReorderStep(s) ==
    LET bad == {i \in 1..(Len(s) - 1) : Ccc(s[i + 1]) # 0 /\ Ccc(s[i]) > Ccc(s[i + 1])}
    IN  IF bad = {} THEN s
        ELSE LET i == Min(bad)
             IN  [j \in 1..Len(s) |->
                    IF j = i THEN s[i + 1] ELSE IF j = i + 1 THEN s[i] ELSE s[j]]

RECURSIVE Reorder(_)
Reorder(s) == IF ReorderStep(s) = s THEN s ELSE Reorder(ReorderStep(s))

\* canonical composition: out is the text composed so far, st the index in
\* out of the last starter (0 when none), last the combining class of the
\* last character kept after it
RECURSIVE ComposeFrom(_, _, _, _)
ComposeFrom(s, out, st, last) ==
    IF s = <<>> THEN out
    ELSE
      LET c == Head(s)
          unblocked == (last < Ccc(c)) \/ (last = 0 /\ st = Len(out))
      IN  IF st > 0 /\ Composite(out[st], c) # "" /\ unblocked
          THEN ComposeFrom(Tail(s), [out EXCEPT ![st] = Composite(out[st], c)], st, last)
          ELSE IF Ccc(c) = 0
          THEN ComposeFrom(Tail(s), Append(out, c), Len(out) + 1, 0)
          ELSE ComposeFrom(Tail(s), Append(out, c), st, Ccc(c))

\* A starter that composes with nothing before it begins a new run: the text
\* is composed run by run, cut at a starter at or after its middle.
RECURSIVE ComposeAll(_)
ComposeAll(s) ==
    LET cuts == {i \in ((Len(s) \div 2) + 1)..Len(s) : i > 1 /\ Ccc(s[i]) = 0}
    IN  IF Len(s) <= 4 \/ cuts = {} THEN ComposeFrom(s, <<>>, 0, 0)
        ELSE ComposeAll(SubSeq(s, 1, Min(cuts) - 1))
                 \o ComposeAll(SubSeq(s, Min(cuts), Len(s)))

NFKC(s) == ComposeAll(Reorder(DecomposeAll(s)))

-----------------------------------------------------------------------------
(* normalize_column_name *)

Pat_inv_no == <<"i", "n", "v", ".", "n", "o">>
Pat_custom_payment_ref ==
    <<"c", "u", "s", "t", "o", "m", " ", "p", "a", "y", "m", "e", "n", "t", " ",
      "r", "e", "f", ".">>
Pat_custompaymentref ==
    <<"c", "u", "s", "t", "o", "m", "p", "a", "y", "m", "e", "n", "t",
      "r", "e", "f", ".">>

\* re.sub(r'\s+', '', s)
RemoveSpace(s) == LET Kept(c) == ~IsSpace(c) IN SelectSeq(s, Kept)

\* re.sub(r'[^\w.]', '', s) when keepDot, re.sub(r'[^\w]', '', s) otherwise
KeepWord(s, keepDot) ==
    LET Kept(c) == IsWord(c) \/ (keepDot /\ c = ".") IN SelectSeq(s, Kept)

\* the test of line 24, made on the lowercased header as uploaded
DotPattern(col_name) ==
    LET lower_col_name == lower(col_name)
    IN  \/ Contains(lower_col_name, Pat_inv_no)
        \/ Contains(lower_col_name, Pat_custom_payment_ref)
        \/ Contains(lower_col_name, Pat_custompaymentref)

normalize_column_name(col_name) ==
    lower(KeepWord(RemoveSpace(NFKC(col_name)), DotPattern(col_name)))

-----------------------------------------------------------------------------
(* Inputs of the normalizer: the keys of the two mappings in their header  *)
(* variants, every short text over a small alphabet, and texts built       *)
(* around the three dot patterns.                                          *)

MappingKeys ==
    {BILLS_COLUMN_MAPPING[i].key : i \in 1..Len(BILLS_COLUMN_MAPPING)}
    \cup {DETAIL_BILLS_COLUMN_MAPPING[i].key : i \in 1..Len(DETAIL_BILLS_COLUMN_MAPPING)}

UpperChar(c) ==
    IF c \in AsciiLower THEN UpperAlpha[CHOOSE i \in 1..26 : LowerAlpha[i] = c] ELSE c

WideChar(c) == IF c = "A" THEN "UFF21" ELSE IF c = "N" THEN "UFF2E" ELSE c

RECURSIVE DoubleSpace(_)
DoubleSpace(s) ==
    IF s = <<>> THEN <<>>
    ELSE IF Len(s) = 1 THEN (IF s[1] = " " THEN <<" ", " ">> ELSE s)
    ELSE DoubleSpace(Left(s)) \o DoubleSpace(Right(s))

DropSpace(s) == LET Kept(c) == c # " " IN SelectSeq(s, Kept)

HeaderVariants ==
    {"same", "upper", "lower", "nospace", "morespace", "padded", "tab", "nbsp", "wide"}

\* the header a spreadsheet may carry in place of the key k
Variant(k, v) ==
    IF v = "upper" THEN [i \in 1..Len(k) |-> UpperChar(k[i])]
    ELSE IF v = "lower" THEN [i \in 1..Len(k) |-> IF k[i] \in AsciiUpper THEN LowerChar(k[i])[1] ELSE k[i]]
    ELSE IF v = "nospace" THEN DropSpace(k)
    ELSE IF v = "morespace" THEN DoubleSpace(k)
    ELSE IF v = "padded" THEN <<" ">> \o k \o <<" ">>
    ELSE IF v = "tab" THEN [i \in 1..Len(k) |-> IF k[i] = " " THEN "TAB" ELSE k[i]]
    ELSE IF v = "nbsp" THEN [i \in 1..Len(k) |-> IF k[i] = " " THEN "U00A0" ELSE k[i]]
    ELSE IF v = "wide" THEN [i \in 1..Len(k) |-> WideChar(k[i])]
    ELSE k

MaxHeaderLen == 3
SmallAlphabet == {"a", "I", "o", ".", " ", "_", "-", "U0130", "U0301", "U0E33"}
ShortTexts == UNION {[1..n -> SmallAlphabet] : n \in 0..MaxHeaderLen}
Affixes == UNION {[1..n -> SmallAlphabet] : n \in 0..1}

PatternTexts ==
    {Pat_inv_no, Pat_custom_payment_ref, Pat_custompaymentref,
     <<"I", "N", "V", ".", "N", "o">>}

NormIn(key, variant, text) == [fn |-> "norm", key |-> key, variant |-> variant, x |-> text]

NormInputs ==
    {NormIn(k, v, Variant(k, v)) : k \in MappingKeys, v \in HeaderVariants}
    \cup {NormIn(<<>>, "text", s) : s \in ShortTexts}
    \cup {NormIn(<<>>, "text", a \o p \o b) : a \in Affixes, p \in PatternTexts, b \in Affixes}

InitNorm ==
    /\ arg \in NormInputs
    /\ res = <<>>
    /\ res2 = <<>>
    /\ pc = "start"
    /\ NoStore

Normalize ==
    /\ pc = "start"
    /\ arg.fn = "norm"
    /\ res' = normalize_column_name(arg.x)
    /\ pc' = "once"
    /\ UNCHANGED <<arg, res2, store>>

Renormalize ==
    /\ pc = "once"
    /\ arg.fn = "norm"
    /\ res2' = normalize_column_name(res)
    /\ pc' = "twice"
    /\ UNCHANGED <<arg, res, store>>

NextNorm == Normalize \/ Renormalize

SpecNorm == InitNorm /\ [][NextNorm]_vars

\* C2: normalize_column_name is idempotent: normalizing a normalized header
\* returns it unchanged, for every header.
C2_NormIdempotent == (pc = "twice" /\ arg.fn = "norm") => res2 = res

\* C3: a header that differs from a mapping key only by whitespace, letter
\* case or the Unicode encoding of its characters normalizes to the same
\* lookup key as the mapping key, so that it matches.
C3_VariantsMatch ==
    (pc # "start" /\ arg.fn = "norm" /\ arg.key # <<>>)
        => res = normalize_column_name(arg.key)

\* the mapping keys of the invoice number and of the custom payment
\* reference
DotKeys == {HeaderText.inv_no, HeaderText.custom_payment_ref}

\* a letter or a digit in lower case
LowerAlnum(c) ==
    c \in Digit \cup AsciiLower \cup ThaiLetter \cup {"U00F3", "U00E1", "U00ED"}

\* C20: for every header the key normalize_column_name returns holds no
\* whitespace, no uppercase letter and no character that is not a letter or
\* a digit (the underscore is none) other than the dot; the dot is kept
\* exactly when the header is an invoice number header (such as the mapping
\* key 'INV. No') or a custom payment reference header.
C20_NormalizedAlphabet ==
    (pc # "start" /\ arg.fn = "norm") =>
        /\ \A i \in 1..Len(res) : LowerAlnum(res[i]) \/ res[i] = "."
        /\ (arg.key \in DotKeys /\ arg.variant = "same") =>
               \E i \in 1..Len(res) : res[i] = "."
        /\ (\E i \in 1..Len(res) : res[i] = ".") =>
               (arg.key \in DotKeys \/ DotPattern(arg.x))

-----------------------------------------------------------------------------
(* parse_date_robust_and_format.  A parsed date is <<year, month, day>>;   *)
(* pd.NaT is the empty tuple.                                              *)

NaT == <<>>

IsLeap(y) == (y % 4 = 0 /\ y % 100 # 0) \/ y % 400 = 0

DaysIn(m, y) ==
    IF m = 2 THEN (IF IsLeap(y) THEN 29 ELSE 28)
    ELSE IF m \in {4, 6, 9, 11} THEN 30
    ELSE 31

\* the datetime the three numbers make, or NaT
MakeDate(y, m, d) ==
    IF y >= 1 /\ m \in 1..12 /\ d >= 1 /\ d <= DaysIn(m, y) THEN <<y, m, d>> ELSE NaT

AllDigits(s) == \A i \in 1..Len(s) : IsDigit(s[i])

\* the three fields of s around the separator sep, or <<>> when s does not
\* hold exactly two separators
Fields(s, sep) ==
    LET at == {i \in 1..Len(s) : s[i] = sep}
    IN  IF Cardinality(at) # 2 THEN <<>>
        ELSE LET i == Min(at)
                 j == CHOOSE k \in at : k # i
             IN  <<SubSeq(s, 1, i - 1), SubSeq(s, i + 1, j - 1), SubSeq(s, j + 1, Len(s))>>

\* a %d or %m field: one or two digits, not zero
IsDayOrMonthField(f) == Len(f) \in {1, 2} /\ AllDigits(f) /\ ToInt(f) # 0
\* a %Y field: four digits
IsYearField(f) == Len(f) = 4 /\ AllDigits(f)

\* pd.to_datetime(s, format='%d/%m/%Y', errors='coerce')
to_datetime_dmy(s) ==
    LET f == Fields(s, "/")
    IN  IF f # <<>> /\ IsDayOrMonthField(f[1]) /\ IsDayOrMonthField(f[2]) /\ IsYearField(f[3])
        THEN MakeDate(ToInt(f[3]), ToInt(f[2]), ToInt(f[1]))
        ELSE NaT

\* pd.to_datetime(s, format='%Y-%m-%d', errors='coerce')
to_datetime_ymd(s) ==
    LET f == Fields(s, "-")
    IN  IF f # <<>> /\ IsYearField(f[1]) /\ IsDayOrMonthField(f[2]) /\ IsDayOrMonthField(f[3])
        THEN MakeDate(ToInt(f[1]), ToInt(f[2]), ToInt(f[3]))
        ELSE NaT

\* pd.to_datetime(s, format='%m/%d/%Y', errors='coerce')
to_datetime_mdy(s) ==
    LET f == Fields(s, "/")
    IN  IF f # <<>> /\ IsDayOrMonthField(f[1]) /\ IsDayOrMonthField(f[2]) /\ IsYearField(f[3])
        THEN MakeDate(ToInt(f[3]), ToInt(f[1]), ToInt(f[2]))
        ELSE NaT

\* pd.to_datetime(s, errors='coerce') with no format: year first when the
\* first field has four digits; otherwise month first, and day first when
\* the first number cannot be a month
to_datetime_generic(s) ==
    LET f == IF Fields(s, "/") # <<>> THEN Fields(s, "/") ELSE Fields(s, "-")
    IN  IF f = <<>> \/ ~(\A i \in 1..3 : f[i] # <<>> /\ AllDigits(f[i])) THEN NaT
        ELSE IF IsYearField(f[1]) /\ IsDayOrMonthField(f[2]) /\ IsDayOrMonthField(f[3])
        THEN MakeDate(ToInt(f[1]), ToInt(f[2]), ToInt(f[3]))
        ELSE IF IsDayOrMonthField(f[1]) /\ IsDayOrMonthField(f[2]) /\ IsYearField(f[3])
        THEN IF ToInt(f[1]) <= 12
             THEN MakeDate(ToInt(f[3]), ToInt(f[1]), ToInt(f[2]))
             ELSE MakeDate(ToInt(f[3]), ToInt(f[2]), ToInt(f[1]))
        ELSE NaT

\* the list of formats with month/day/year tried first
DateFormats_MonthFirst == <<"%m/%d/%Y", "%Y-%m-%d", "%d/%m/%Y">>

\* the list of formats of line 307, in the order they are tried
DateFormats == <<"%d/%m/%Y", "%Y-%m-%d", "%m/%d/%Y">>

to_datetime_format(s, fmt) ==
    IF fmt = "%d/%m/%Y" THEN to_datetime_dmy(s)
    ELSE IF fmt = "%Y-%m-%d" THEN to_datetime_ymd(s)
    ELSE to_datetime_mdy(s)

\* dt_obj.strftime('%Y-%m-%d')
strftime_ymd(dt) ==
    PadTo(IntToStr(dt[1]), 4) \o <<"-">> \o Pad2(dt[2]) \o <<"-">> \o Pad2(dt[3])

\* a repair that let a text that is no date stand
parse_date_KeepText(date_str) ==
    IF isna(date_str) \/ ~isstr(date_str) THEN <<>> ELSE date_str.s

parse_date_robust_and_format(date_str) ==
    IF isna(date_str) \/ ~isstr(date_str) THEN <<>>
    ELSE
      LET s == date_str.s
          hits == {n \in 1..Len(DateFormats) : to_datetime_format(s, DateFormats[n]) # NaT}
          dt_obj == IF hits # {} THEN to_datetime_format(s, DateFormats[Min(hits)])
                    ELSE to_datetime_generic(s)
      IN  IF dt_obj = NaT THEN <<>> ELSE strftime_ymd(dt_obj)

-----------------------------------------------------------------------------
(* Inputs of the date repair: three numbers a, b and a year y spelled in   *)
(* one of the shapes below, texts that are no date, a null and a number.   *)

MaxField == 13
FieldValues == (0..MaxField) \cup {28, 29, 30, 31, 32}
Years == {2023, 2024}

Slash == <<"/">>
Dash == <<"-">>

DateIn(shape, a, b, y, text) ==
    [fn |-> "date", shape |-> shape, a |-> a, b |-> b, y |-> y, x |-> text]

DateInputs ==
    \* a/b/y, zero-padded and not
    {DateIn("slash", a, b, y, Str(TwoDigits(a) \o Slash \o TwoDigits(b) \o Slash \o IntToStr(y))) :
        a \in FieldValues, b \in FieldValues, y \in Years}
    \cup
    {DateIn("slash", a, b, y, Str(IntToStr(a) \o Slash \o IntToStr(b) \o Slash \o IntToStr(y))) :
        a \in FieldValues, b \in FieldValues, y \in Years}
    \cup
    \* y-a-b: the ISO spelling, a the month and b the day
    {DateIn("iso", a, b, y, Str(IntToStr(y) \o Dash \o TwoDigits(a) \o Dash \o TwoDigits(b))) :
        a \in FieldValues, b \in FieldValues, y \in Years}
    \cup
    \* a-b-y: none of the explicit formats
    {DateIn("dash", a, b, y, Str(TwoDigits(a) \o Dash \o TwoDigits(b) \o Dash \o IntToStr(y))) :
        a \in FieldValues, b \in FieldValues, y \in Years}
    \cup
    {DateIn("other", 0, 0, 0, v) :
        v \in {Str(<<>>), Str(Chars_abc), Str(Chars_nan),
               Str(<<"3", "1", "/", "0", "1">>),
               Str(<<"3", "1", "/", "0", "1", "/", "2", "4", "x">>),
               Null, Num(5)}}

InitDate ==
    /\ arg \in DateInputs
    /\ res = <<>>
    /\ res2 = <<>>
    /\ pc = "start"
    /\ NoStore

ParseDate ==
    /\ pc = "start"
    /\ arg.fn = "date"
    /\ res' = parse_date_robust_and_format(arg.x)
    /\ pc' = "once"
    /\ UNCHANGED <<arg, res2, store>>

\* the stored date read again (get_bills_for_analysis reads it as ISO)
ReparseDate ==
    /\ pc = "once"
    /\ arg.fn = "date"
    /\ res2' = parse_date_robust_and_format(Str(res))
    /\ pc' = "twice"
    /\ UNCHANGED <<arg, res, store>>

NextDate == ParseDate \/ ReparseDate

SpecDate == InitDate /\ [][NextDate]_vars

\* the calendar dates of the claim: a valid day of a valid month
ValidDay(y, m, d) ==
    /\ m >= 1
    /\ m <= 12
    /\ d >= 1
    /\ d <= (IF m = 2 THEN (IF y = 2024 THEN 29 ELSE 28)
             ELSE IF m \in {4, 6, 9, 11} THEN 30 ELSE 31)

IsoText(y, m, d) == IntToStr(y) \o Dash \o TwoDigits(m) \o Dash \o TwoDigits(d)

\* C8: the explicit formats are tried in the order day/month/year, ISO,
\* month/day/year and the first that parses decides: a/b/y valid as
\* day/month/year is stored as that date (also when it is valid as
\* month/day/year too); a/b/y valid only as month/day/year is stored as that
\* date; the ISO spelling y-m-d of a valid date is stored as itself, so the
\* two spellings of one date store the same text; a text that no step
\* parses, a null and a non-string are stored as the empty string.
C8_DateRepair ==
    (pc # "start" /\ arg.fn = "date") =>
        /\ (arg.shape = "slash" /\ ValidDay(arg.y, arg.b, arg.a))
               => res = IsoText(arg.y, arg.b, arg.a)
        /\ (arg.shape = "slash" /\ ~ValidDay(arg.y, arg.b, arg.a) /\ ValidDay(arg.y, arg.a, arg.b))
               => res = IsoText(arg.y, arg.a, arg.b)
        /\ (arg.shape = "slash" /\ ~ValidDay(arg.y, arg.b, arg.a) /\ ~ValidDay(arg.y, arg.a, arg.b))
               => res = <<>>
        /\ (arg.shape = "iso" /\ ValidDay(arg.y, arg.a, arg.b))
               => res = IsoText(arg.y, arg.a, arg.b)
        /\ (arg.shape = "iso" /\ ~ValidDay(arg.y, arg.a, arg.b)) => res = <<>>
        /\ (arg.shape = "dash" /\ (ValidDay(arg.y, arg.a, arg.b) \/ ValidDay(arg.y, arg.b, arg.a)))
               => res \in {IsoText(arg.y, arg.a, arg.b), IsoText(arg.y, arg.b, arg.a)}
        /\ (arg.shape = "dash" /\ ~ValidDay(arg.y, arg.a, arg.b) /\ ~ValidDay(arg.y, arg.b, arg.a))
               => res = <<>>
        /\ arg.shape = "other" => res = <<>>

\* 01/02/2024, valid in both readings, has been stored day first
C8_Witness ==
    /\ pc = "once"
    /\ arg.fn = "date"
    /\ arg.x = Str(<<"0", "1", "/", "0", "2", "/", "2", "0", "2", "4">>)
    /\ res = <<"2", "0", "2", "4", "-", "0", "2", "-", "0", "1">>

-----------------------------------------------------------------------------
(* get_sql_type and create_table_from_mapping *)

numeric_cols ==
    {"summary_price", "discount_by_item", "subtotal_bill_discount",
     "subtotal_summary_price_minus_discount_by_item", "service_charge",
     "non_vat", "ex_vat", "before_vat_subtotal_plus_service_charge",
     "vat", "voucher_amount_desc", "voucher_discount", "rounding_amt",
     "delivery_fee", "total_final_bill", "tips", "quantity", "price_per_unit",
     "discount_by_item_percent", "discounted_price", "refund"}

integer_cols == {"seat_amount"}

get_sql_type(column_name) ==
    IF column_name \in numeric_cols THEN "REAL"
    ELSE IF column_name \in integer_cols THEN "INTEGER"
    ELSE "TEXT"

\* list(column_mapping.values())
db_columns_ordered(column_mapping) ==
    [i \in 1..Len(column_mapping) |-> column_mapping[i].col]

ColumnSet(column_mapping) == {column_mapping[i].col : i \in 1..Len(column_mapping)}

\* the column definition create_table_from_mapping writes for db_col
ColumnDef(db_col) ==
    IF db_col \in {"receipt_number", "menu_name"}
    THEN [col |-> db_col, type |-> "TEXT", notnull |-> TRUE]
    ELSE IF db_col \in {"total_final_bill", "quantity", "summary_price",
                        "price_per_unit", "discounted_price"}
    THEN [col |-> db_col, type |-> "REAL", notnull |-> TRUE]
    ELSE IF db_col = "seat_amount"
    THEN [col |-> db_col, type |-> "INTEGER", notnull |-> TRUE]
    ELSE IF db_col \in {"voucher_amount_desc", "voucher_discount"}
            /\ get_sql_type(db_col) = "REAL"
    THEN [col |-> db_col, type |-> "REAL", notnull |-> TRUE]
    ELSE [col |-> db_col, type |-> get_sql_type(db_col), notnull |-> FALSE]

\* a table that does not exist has the empty schema
NoTable == <<>>

\* the except clause of create_table_from_mapping
create_handlers == {"sqlite3.Error"}

\* CREATE TABLE without IF NOT EXISTS behind a DROP TABLE
create_table_Replace(column_mapping, old, failed) ==
    IF failed THEN NoTable
    ELSE [i \in 1..Len(column_mapping) |-> ColumnDef(column_mapping[i].col)]

\* CREATE TABLE IF NOT EXISTS: the schema of the table afterwards.  failed is
\* a sqlite3.Error raised by the connection or the statement; it is caught
\* and printed, and the table is left as it was.
create_table_from_mapping(column_mapping, old, failed) ==
    IF failed \/ old # NoTable THEN old
    ELSE [i \in 1..Len(column_mapping) |-> ColumnDef(column_mapping[i].col)]

TableNames == {"bills", "bill_details"}

MappingOf(table_name) ==
    IF table_name = "bills" THEN BILLS_COLUMN_MAPPING ELSE DETAIL_BILLS_COLUMN_MAPPING

-----------------------------------------------------------------------------
(* The columns a file may carry: the header, spelled in one of the         *)
(* variants of its mapping key, and the values its cells run through.      *)

Chars_R1 == <<"R", "1">>
Chars_R2 == <<"R", "2">>
Chars_Tea == <<"T", "e", "a">>
Chars_Pie == <<"P", "i", "e">>
Chars_inf == <<"i", "n", "f">>
Chars_Cashier == <<"C", "a", "s", "h", "i", "e", "r">>
Chars_dmy == <<"3", "1", "/", "0", "1", "/", "2", "0", "2", "4">>
Chars_ymd == <<"2", "0", "2", "4", "-", "0", "1", "-", "3", "1">>
Chars_1h57 == <<"1", " ", "h", "o", "u", "r", " ", "5", "7", " ", "m", "i", "n">>
Chars_1405 == <<"1", "4", ":", "0", "5">>
Chars_100h == <<"1", "0", "0", " ", "h", "o", "u", "r">>
Chars_12_5 == <<"1", "2", ".", "5">>

Probe(db_col, variant, cells) ==
    [col |-> db_col, header |-> Variant(HeaderText[db_col], variant), cells |-> cells]

BillsProbes ==
    <<Probe("payment_date", "same", <<Str(Chars_dmy), Str(Chars_abc), Null, Str(Chars_ymd)>>),
      Probe("receipt_number", "morespace", <<Str(Chars_R1), Null, PyInt(7), Str(Chars_R2)>>),
      Probe("total_final_bill", "lower", <<Num(125), Str(Chars_abc), Null, Str(Chars_12_5)>>),
      Probe("seat_amount", "upper", <<PyInt(2), Null, Str(Chars_inf), Num(25)>>)>>

DetailProbes ==
    <<Probe("payment_date", "same", <<Str(Chars_dmy), Str(Chars_abc), Null, Str(Chars_ymd)>>),
      Probe("payment_time", "padded", <<Str(Chars_1h57), Null, Str(Chars_1405), Str(Chars_100h)>>),
      Probe("receipt_number", "nospace", <<Str(Chars_R1), Null, PyInt(7), Str(Chars_R2)>>),
      Probe("menu_name", "upper", <<Str(Chars_Tea), Null, Str(Chars_Pie), Str(<<>>)>>),
      Probe("quantity", "lower", <<PyInt(1), Str(Chars_abc), Num(15), Null>>)>>

ExtraProbe ==
    [col |-> "", header |-> Chars_Cashier, cells |-> <<Str(Chars_abc), Null>>]

ProbesOf(table_name) == IF table_name = "bills" THEN BillsProbes ELSE DetailProbes

\* the headers of the files
UploadHeaders ==
    {BillsProbes[i].header : i \in 1..Len(BillsProbes)}
    \cup {DetailProbes[i].header : i \in 1..Len(DetailProbes)}
    \cup {ExtraProbe.header}

\* normalize_column_name has no state: its value on the headers of the
\* files is computed once
NormalizedUploadHeaders == [h \in UploadHeaders |-> normalize_column_name(h)]

-----------------------------------------------------------------------------
(* The pandas operations of insert_data_from_df.  An uploaded dataframe df *)
(* is [cols |-> the header texts, data |-> for each column its cells,      *)
(* n |-> the number of rows]; every column holds n cells.                  *)

NRows(df) == df.n

Max(S) == CHOOSE x \in S : \A y \in S : x >= y

\* normalize_column_name of every key of a mapping (line 254), computed once
BillsNormalizedKeys ==
    [i \in 1..Len(BILLS_COLUMN_MAPPING) |->
        normalize_column_name(BILLS_COLUMN_MAPPING[i].key)]
DetailNormalizedKeys ==
    [i \in 1..Len(DETAIL_BILLS_COLUMN_MAPPING) |->
        normalize_column_name(DETAIL_BILLS_COLUMN_MAPPING[i].key)]
NormalizedKeys(column_mapping) ==
    IF column_mapping = BILLS_COLUMN_MAPPING THEN BillsNormalizedKeys
    ELSE DetailNormalizedKeys

\* the keys of normalized_df_columns_map, by column
NormalizedHeaders(df) ==
    [i \in 1..Len(df.cols) |->
        IF df.cols[i] \in UploadHeaders THEN NormalizedUploadHeaders[df.cols[i]]
        ELSE normalize_column_name(df.cols[i])]

ColumnFor_FirstWhenMissing(headers, normalized_key) ==
    LET hits == {i \in 1..Len(headers) : headers[i] = normalized_key}
    IN  IF hits # {} THEN Max(hits) ELSE IF headers = <<>> THEN 0 ELSE 1


\* normalized_df_columns_map.get(key): the index of the column the dict
\* holds for the normalized key (a later header replaces an earlier one with
\* the same normalized name), or 0 for None
ColumnFor(headers, normalized_key) ==
    LET hits == {i \in 1..Len(headers) : headers[i] = normalized_key}
    IN  IF hits = {} THEN 0 ELSE Max(hits)

\* for each mapping entry, the uploaded column it takes, or 0
Matches(df, column_mapping) ==
    LET headers == NormalizedHeaders(df)
        keys == NormalizedKeys(column_mapping)
    IN  [i \in 1..Len(column_mapping) |-> ColumnFor(headers, keys[i])]

\* len(df_transformed) once the first i mapping entries are handled: the
\* frame has no index until a column has been copied into it
FrameLen(df, match, i) ==
    IF \E j \in 1..i : match[j] # 0 THEN NRows(df) ELSE 0

\* df_transformed.loc[:, db_col] = <scalar> raises "cannot set a frame with
\* no defined index and a scalar" when the frame has no rows
ScalarSetRaises(df, match) ==
    \E i \in 1..Len(match) : match[i] = 0 /\ FrameLen(df, match, i - 1) = 0

\* the scalar lines 262-269 give a missing column
MissingDefault(db_col) ==
    IF db_col \in {"receipt_number", "menu_name"} THEN Str(<<>>)
    ELSE IF get_sql_type(db_col) = "REAL" THEN Num(0)
    ELSE IF get_sql_type(db_col) = "INTEGER" THEN PyInt(0)
    ELSE Null

\* the column of df_transformed for the mapping entry of db_col, matched
\* with the uploaded column m
AssembledColumn(df, db_col, m) ==
    IF m # 0 THEN df.data[m]
    ELSE [r \in 1..NRows(df) |-> MissingDefault(db_col)]

\* the number a text spells, or Null: digits, digits with one decimal, inf
ParseNumber(s) ==
    LET f == {i \in 1..Len(s) : s[i] = "."}
    IN  IF s # <<>> /\ AllDigits(s) THEN Num(10 * ToInt(s))
        ELSE IF /\ Cardinality(f) = 1
                /\ Len(s) >= 3
                /\ f = {Len(s) - 1}
                /\ AllDigits(SubSeq(s, 1, Len(s) - 2))
                /\ IsDigit(s[Len(s)])
        THEN Num(10 * ToInt(SubSeq(s, 1, Len(s) - 2)) + DigitVal(s[Len(s)]))
        ELSE IF lower(strip(s)) = <<"i", "n", "f">> THEN Inf
        ELSE Null

\* pd.to_numeric(x, errors='coerce') of one cell
to_numeric(x) ==
    IF x.t = "int" THEN Num(10 * x.v)
    ELSE IF x.t = "str" THEN ParseNumber(x.s)
    ELSE x

\* str(x) of a float in tenths
FloatToStr(v) == IntToStr(v \div 10) \o <<".">> \o IntToStr(v % 10)

\* .astype(str) of one cell: a null becomes the text nan
astype_str(x) ==
    IF x.t = "str" THEN x
    ELSE IF x.t = "int" THEN Str(IntToStr(x.v))
    ELSE IF x.t = "num" THEN Str(FloatToStr(x.v))
    ELSE IF x.t = "inf" THEN Str(<<"i", "n", "f">>)
    ELSE Str(<<"n", "a", "n">>)

\* .fillna(v) of one cell
fillna(x, v) == IF isna(x) THEN v ELSE x

\* the coercion of lines 292-297 for one cell of a column of sql_type
CoerceReal(x) == fillna(to_numeric(x), Num(0))
CoerceInteger(x) ==
    LET y == fillna(to_numeric(x), PyInt(0))
    IN  IF y.t = "num" THEN PyInt(y.v \div 10) ELSE y
CoerceText(x) == fillna(astype_str(x), Str(<<>>))

Coerce(sql_type, x) ==
    IF sql_type = "REAL" THEN CoerceReal(x)
    ELSE IF sql_type = "INTEGER" THEN CoerceInteger(x)
    ELSE CoerceText(x)

\* .astype(int) raises on a column that holds inf
AstypeIntRaises(df, column_mapping, match) ==
    \E i \in 1..Len(column_mapping) :
        /\ get_sql_type(column_mapping[i].col) = "INTEGER"
        /\ \E r \in 1..NRows(df) :
               to_numeric(AssembledColumn(df, column_mapping[i].col, match[i])[r]).t = "inf"

\* one cell of the frame that is inserted: coerced, then the date and the
\* time column repaired
FinalCell(db_col, x) ==
    LET y == Coerce(get_sql_type(db_col), x)
    IN  IF db_col = "payment_date" THEN Str(parse_date_robust_and_format(y))
        ELSE IF db_col = "payment_time" THEN Str(format_time_string_for_storage(y))
        ELSE y

\* data_to_insert: one list per uploaded row, in the order of
\* db_columns_ordered
data_to_insert(df, column_mapping, match) ==
    [r \in 1..NRows(df) |->
        [i \in 1..Len(column_mapping) |->
            FinalCell(column_mapping[i].col,
                      AssembledColumn(df, column_mapping[i].col, match[i])[r])]]

-----------------------------------------------------------------------------
(* The uploaded files.  A file holds some of the mapped headers, each in   *)
(* one of its spellings, in the order of the mapping, reversed, or behind  *)
(* a header no mapping knows; its cells run through the values of the      *)
(* column's kind.                                                          *)

MaxRows == 2
MaxImports == 2

\* the probes whose index is in S, in their order
Pick(probes, S) ==
    LET F[i \in 0..Len(probes)] ==
            IF i = 0 THEN <<>>
            ELSE IF i \in S THEN Append(F[i - 1], probes[i]) ELSE F[i - 1]
    IN  F[Len(probes)]

Layouts == {"plain", "reversed", "extra"}

Arrange(probes, layout) ==
    IF layout = "reversed" THEN [i \in 1..Len(probes) |-> probes[Len(probes) + 1 - i]]
    ELSE IF layout = "extra" THEN <<ExtraProbe>> \o probes
    ELSE probes

\* the cells of a column start at the first or at the third value of its kind
Patterns == 0..1

CellAt(cells, pattern, r) == cells[((2 * pattern + r - 1) % Len(cells)) + 1]

MakeDf(probes, pattern, n) ==
    [cols |-> [i \in 1..Len(probes) |-> probes[i].header],
     data |-> [i \in 1..Len(probes) |-> [r \in 1..n |-> CellAt(probes[i].cells, pattern, r)]],
     n |-> n]

\* a file read from CSV has a header
Uploads(table_name) ==
    {df \in {MakeDf(Arrange(Pick(ProbesOf(table_name), S), layout), pattern, n) :
                S \in SUBSET (1..Len(ProbesOf(table_name))),
                layout \in Layouts,
                pattern \in Patterns,
                n \in 0..MaxRows} :
        df.cols # <<>>}

DefaultUpload(table_name) == MakeDf(ProbesOf(table_name), 0, 1)

\* what the two file uploaders hold: <<>> for no file, <<df>> for a file.
\* Either one of them holds a file, or each holds its full one-row file.
NoFile == <<>>

Files ==
    UNION {{[u \in TableNames |-> IF u = t THEN <<df>> ELSE NoFile] : df \in Uploads(t)} :
              t \in TableNames}
    \cup {[u \in TableNames |-> <<DefaultUpload(u)>>]}

\* The files the readers are followed on: bills with a payment time, line
\* items that share receipts and menu names.
BillsReadProbes ==
    <<Probe("payment_date", "same", <<Str(Chars_dmy), Str(Chars_abc), Str(Chars_ymd), Null>>),
      Probe("payment_time", "padded", <<Str(Chars_1405), Str(Chars_100h), Null>>),
      Probe("receipt_number", "morespace", <<Str(Chars_R1), Str(Chars_R2)>>),
      Probe("total_final_bill", "lower", <<Num(125), Str(Chars_12_5), Str(Chars_abc), Null>>)>>

DetailReadProbes ==
    <<Probe("payment_date", "same", <<Str(Chars_dmy), Str(Chars_abc), Null, Str(Chars_ymd)>>),
      Probe("receipt_number", "nospace", <<Str(Chars_R1), Str(Chars_R1), Str(Chars_R2), Str(Chars_R2)>>),
      Probe("menu_name", "upper", <<Str(Chars_Tea), Str(Chars_Pie), Str(Chars_Tea), Str(<<>>), Null>>),
      Probe("quantity", "lower", <<PyInt(1), Str(Chars_abc), Num(15), Null>>)>>

\* the whole file, or the file without its payment time or its menu name
ReadUploads(table_name) ==
    IF table_name = "bills"
    THEN {MakeDf(Pick(BillsReadProbes, S), pattern, n) :
              S \in {{1, 2, 3, 4}, {1, 3, 4}},
              pattern \in Patterns,
              n \in {0, MaxRows, MaxRows + 1}}
    ELSE {MakeDf(Pick(DetailReadProbes, S), pattern, n) :
              S \in {{1, 2, 3, 4}, {1, 2, 4}},
              pattern \in Patterns,
              n \in {0, 2 * MaxRows, 3 * MaxRows}}

ReadFiles ==
    UNION {{[u \in TableNames |-> IF u = t THEN <<df>> ELSE NoFile] : df \in ReadUploads(t)} :
              t \in TableNames}

-----------------------------------------------------------------------------
(* The sqlite3 connection of insert_data_from_df.  A fault is an error the *)
(* database raises on its own: on connect, or while executemany is at a    *)
(* row (a full disk, a lock held by another program).                      *)

NoFault == [kind |-> "none", row |-> 0]
Faults(n) ==
    {NoFault, [kind |-> "connect", row |-> 0]}
    \cup {[kind |-> "execute", row |-> r] : r \in 1..n}

\* a row with a NULL in a NOT NULL column is refused
ViolatesNotNull(table_schema, cells) ==
    \E i \in 1..Len(cells) : table_schema[i].notnull /\ isna(cells[i])

\* cursor.executemany: the row at which it raises, or 0 when it inserts all
executemany(table_schema, data, fault) ==
    LET bad == {r \in 1..Len(data) :
                    \/ ViolatesNotNull(table_schema, data[r])
                    \/ (fault.kind = "execute" /\ fault.row = r)}
    IN  IF bad = {} THEN 0 ELSE Min(bad)

\* an insert that skips the rows the table already holds
Stored_Dedup(table_rows, data) ==
    LET Fresh(cells) == \A r \in 1..Len(table_rows) : table_rows[r].cells # cells
        fresh == SelectSeq(data, Fresh)
    IN  table_rows \o [r \in 1..Len(fresh) |-> [id |-> Len(table_rows) + r, cells |-> fresh[r]]]

\* the rows of the table with the rows of data added under the next ids
Stored(table_rows, data) ==
    table_rows \o [r \in 1..Len(data) |-> [id |-> Len(table_rows) + r, cells |-> data[r]]]

\* an insert that wrote its rows to every table
TablesAfter_Every(all_rows, table_name, table_rows) ==
    [t \in DOMAIN all_rows |-> table_rows]

\* INSERT INTO "{table_name}" (line 351): the tables once table_name holds
\* table_rows
TablesAfter(all_rows, table_name, table_rows) ==
    [all_rows EXCEPT ![table_name] = table_rows]

\* a connection that kept what was inserted before the error
conn_close_KeepsPending(committed, pending) == pending

\* conn.close(): the rows inserted since the last commit are rolled back.
\* committed is the table as of the last commit, pending the table with the
\* rows inserted since.
conn_close(committed, pending) == committed

\* conn = None before the try statement
NoConn == "None"

\* conn = sqlite3.connect(DATABASE_NAME), the first line of the try
\* statement of a handler: what conn names when the statement is left.
\* refused is a connect that raised.
sqlite3_connect(handler, refused) == IF refused THEN NoConn ELSE handler

\* a handler that closed its connection at the end of the try block only
finally_close_OnReturn(open, conn, left) ==
    IF left = "return" THEN open \ {conn} ELSE open

\* finally: if conn: conn.close().  open is the set of open connections,
\* left the way the try statement was left: "return", or "except" for an
\* exception one of its handlers caught, or "raise" for one that none did.
finally_close(open, conn, left) == open \ {conn}

\* the connections open once the handler has returned
Scoped(open, handler, refused, left) ==
    LET conn == sqlite3_connect(handler, refused)
    IN  finally_close(IF conn = NoConn THEN open ELSE open \cup {conn}, conn, left)

\* the element of a one-element set; binding a value this way computes it once
Only(S) == CHOOSE x \in S : TRUE

\* lines 244-347: whether a line of the transformation raises, and the
\* data_to_insert it arrives at otherwise
TransformedFrame(df, column_mapping) ==
    Only({[raises |-> ScalarSetRaises(df, match) \/ AstypeIntRaises(df, column_mapping, match),
           data |-> data_to_insert(df, column_mapping, match)] :
              match \in {Matches(df, column_mapping)}})

\* the transformation has no state: its value on the files is computed once
TransformedUploads ==
    [t \in TableNames |-> [df \in Uploads(t) \cup {DefaultUpload(t)} \cup ReadUploads(t) |->
                                TransformedFrame(df, MappingOf(t))]]

df_transformed(df, column_mapping) ==
    LET t == IF column_mapping = BILLS_COLUMN_MAPPING THEN "bills" ELSE "bill_details"
    IN  IF df \in DOMAIN TransformedUploads[t] THEN TransformedUploads[t][df]
        ELSE TransformedFrame(df, column_mapping)

\* lines 353-367: executemany, commit and close on the transformed frame
InsertFrame(frame, table_schema, table_rows, fault) ==
    LET failed_at == executemany(table_schema, frame.data, fault)
        Failure(pending) ==
            [ret |-> "False",
             rows |-> conn_close(table_rows,
                                 Stored(table_rows, SubSeq(frame.data, 1, pending))),
             pending |-> pending]
    IN  IF fault.kind = "connect"
        THEN [ret |-> "False", rows |-> table_rows, pending |-> 0]
        ELSE IF frame.raises
        THEN Failure(0)
        ELSE IF table_schema = NoTable
        THEN Failure(0)
        ELSE IF failed_at # 0
        THEN Failure(failed_at - 1)
        ELSE [ret |-> "True",
              rows |-> conn_close(Stored(table_rows, frame.data),
                                  Stored(table_rows, frame.data)),
              pending |-> 0]

\* insert_data_from_df: for each fault the database may raise during the
\* call, what the call returns and the rows of the table afterwards
insert_data_from_df(df, table_name, column_mapping, table_schema, table_rows) ==
    Only({[fault \in Faults(NRows(df)) |->
              InsertFrame(frame, table_schema, table_rows, fault)] :
              frame \in {df_transformed(df, column_mapping)}})

-----------------------------------------------------------------------------
(* The store: the two tables, created by the application on every run and  *)
(* filled by the two import buttons.                                       *)

NoCall ==
    [op |-> "none", table |-> "bills", ret |-> "None", before |-> <<>>,
     fault |-> NoFault, existed |-> FALSE, pending |-> 0]

Init ==
    /\ arg = [fn |-> "none"]
    /\ res = <<>>
    /\ res2 = <<>>
    /\ pc = "idle"
    /\ schema = [t \in TableNames |-> NoTable]
    /\ rows = [t \in TableNames |-> <<>>]
    /\ file \in Files
    /\ call = NoCall
    /\ imports = 0
    /\ conns = {}
    /\ session_state = <<>>

\* an exception create_table_from_mapping does not catch ends the run of
\* the script that called it
CreateTable(table_name) ==
    /\ pc = "idle"
    /\ \E failed \in BOOLEAN, refused \in BOOLEAN :
       \E left \in {IF ~failed THEN "return"
                    ELSE IF "sqlite3.Error" \in create_handlers THEN "except"
                    ELSE "raise"} :
        /\ refused => failed
        /\ schema' = [schema EXCEPT ![table_name] =
                         create_table_from_mapping(MappingOf(table_name), @, failed)]
        /\ conns' = Scoped(conns, "create_table_from_mapping", refused, left)
        /\ pc' = IF left = "raise" THEN "raised" ELSE pc
    /\ UNCHANGED <<arg, res, res2, rows, file, call, imports, session_state>>

create_bills_table == CreateTable("bills")

create_bill_details_table == CreateTable("bill_details")

Insert(table_name) ==
    /\ pc = "idle"
    /\ imports < MaxImports
    /\ file[table_name] # NoFile
    /\ \E out \in {insert_data_from_df(file[table_name][1], table_name,
                                       MappingOf(table_name),
                                       schema[table_name], rows[table_name])} :
       \E fault \in DOMAIN out :
        /\ rows' = TablesAfter(rows, table_name, out[fault].rows)
        /\ call' = [op |-> "insert", table |-> table_name, ret |-> out[fault].ret,
                    before |-> rows[table_name], fault |-> fault,
                    existed |-> schema[table_name] # NoTable,
                    pending |-> out[fault].pending]
        /\ conns' = Scoped(conns, "insert_data_from_df", fault.kind = "connect",
                           IF out[fault].ret = "True" THEN "return" ELSE "except")
    /\ imports' = imports + 1
    /\ UNCHANGED <<arg, res, res2, pc, schema, file, session_state>>

insert_bills_data == Insert("bills")

insert_bill_details_data == Insert("bill_details")

Next ==
    \/ create_bills_table
    \/ create_bill_details_table
    \/ insert_bills_data
    \/ insert_bill_details_data

Spec == Init /\ [][Next]_vars

-----------------------------------------------------------------------------
(* The claims about the store.  They are read off the last import: its     *)
(* file, its mapping, and the rows the table gained.                       *)

LastDf == file[call.table][1]
LastMapping == MappingOf(call.table)
LastRows == rows[call.table]
NewRows == SubSeq(LastRows, Len(call.before) + 1, Len(LastRows))

\* an import that met no fault of the database and found its table
CleanImport == call.op = "insert" /\ call.fault = NoFault /\ call.existed

\* C4: an import never partially commits: a call on a file of N rows returns
\* True and the table holds its previous rows followed by N new rows, or it
\* returns False and the table holds exactly its previous rows; it always
\* returns one of the two.
C4_NoPartialCommit ==
    call.op = "insert" =>
        \/ /\ call.ret = "True"
           /\ Len(LastRows) = Len(call.before) + NRows(LastDf)
           /\ SubSeq(LastRows, 1, Len(call.before)) = call.before
           /\ \A r \in 1..Len(LastRows) : LastRows[r].id = r
        \/ /\ call.ret = "False"
           /\ LastRows = call.before

\* an import that failed at a later row of executemany, on a table that
\* already held rows
C4_Witness ==
    /\ call.op = "insert"
    /\ call.ret = "False"
    /\ call.fault.kind = "execute"
    /\ call.pending > 0
    /\ call.before # <<>>

\* the default the specification gives a column of a type
TypeDefault(db_col) ==
    IF get_sql_type(db_col) = "REAL" THEN Num(0)
    ELSE IF get_sql_type(db_col) = "INTEGER" THEN PyInt(0)
    ELSE Str(<<>>)

\* C5: every mapping entry that matches no uploaded header, the first entry
\* and the TEXT entries included, is stored in every row as the default of
\* its type (0.0, 0, the empty string), and the import returns True.
C5_MissingColumnDefault ==
    CleanImport =>
        \A match \in {Matches(LastDf, LastMapping)} :
            (\E i \in 1..Len(match) : match[i] = 0) =>
                /\ call.ret = "True"
                /\ \A r \in 1..Len(NewRows) : \A i \in 1..Len(match) :
                       match[i] = 0 =>
                           NewRows[r].cells[i] = TypeDefault(LastMapping[i].col)

\* what the specification stores for a cell of a column of a type
Expected(sql_type, x) ==
    IF sql_type = "TEXT" THEN (IF isna(x) THEN Str(<<>>) ELSE astype_str(x))
    ELSE LET y == to_numeric(x)
         IN  IF sql_type = "REAL" THEN (IF isna(y) THEN Num(0) ELSE y)
             ELSE IF isna(y) THEN PyInt(0)
             ELSE IF y.t = "num" THEN PyInt(y.v \div 10)
             ELSE y

\* C6: every cell of an uploaded column is stored as its parsed number (0.0
\* or 0 when null or unparseable) or as its string form (the empty string
\* when null), and no cell makes the import return False.  The date and the
\* time column are repaired after the coercion and are left to C8 and C9;
\* the files that fail for a missing column are left to C5.
C6_TypeCoercion ==
    CleanImport =>
        \A match \in {Matches(LastDf, LastMapping)} :
            ~ScalarSetRaises(LastDf, match) =>
                /\ call.ret = "True"
                /\ \A r \in 1..Len(NewRows) : \A i \in 1..Len(match) :
                       (match[i] # 0 /\ LastMapping[i].col \notin {"payment_date", "payment_time"}) =>
                           NewRows[r].cells[i] =
                               Expected(get_sql_type(LastMapping[i].col),
                                        LastDf.data[match[i]][r])

KeyColumns == {"receipt_number", "menu_name"}
TotalColumns == {"total_final_bill", "summary_price"}

\* C7: every stored row holds a non-null receipt number, menu name and
\* monetary totals; a row whose receipt number or menu name was null or
\* absent in the file stores the empty string there, and a null total is
\* stored as 0.0.
C7_NeverNull ==
    /\ \A t \in TableNames : \A r \in 1..Len(rows[t]) : \A i \in 1..Len(MappingOf(t)) :
           MappingOf(t)[i].col \in KeyColumns \cup TotalColumns =>
               ~isna(rows[t][r].cells[i])
    /\ (call.op = "insert" /\ call.ret = "True") =>
           \A match \in {Matches(LastDf, LastMapping)} :
               \A r \in 1..Len(NewRows) : \A i \in 1..Len(match) :
                   LET absent == match[i] = 0 \/ isna(LastDf.data[match[i]][r])
                   IN  /\ (LastMapping[i].col \in KeyColumns /\ absent) =>
                              NewRows[r].cells[i] = Str(<<>>)
                       /\ (LastMapping[i].col \in TotalColumns /\ absent) =>
                              NewRows[r].cells[i] = Num(0)

\* C10: for every file (any of the mapped headers present, in any order,
\* with or without an unmapped header) the import writes one row per row of
\* the file, each with exactly the columns of the mapping in the mapping's
\* order, the cell of a matched header under the column of its mapping key.
C10_RowsFollowMapping ==
    CleanImport =>
        \A match \in {Matches(LastDf, LastMapping)} :
            /\ Len(LastRows) = Len(call.before) + NRows(LastDf)
            /\ \A r \in 1..Len(NewRows) :
                   /\ Len(NewRows[r].cells) = Len(LastMapping)
                   /\ \A i \in 1..Len(match) :
                          match[i] # 0 =>
                              NewRows[r].cells[i] =
                                  FinalCell(LastMapping[i].col, LastDf.data[match[i]][r])

\* the rows one successful import of the file of a table adds
FileData(table_name) == df_transformed(file[table_name][1], MappingOf(table_name)).data

\* C11: rows accumulate and are never updated in place: a table holds, in
\* import order, one row per row of the file for every successful import,
\* so the same file of N rows imported k times stores k*N rows, with no
\* deduplication by receipt number; a successful import adds its N rows
\* behind the rows stored before, a failed one leaves them as they were.
C11_RowsAccumulate ==
    /\ \A t \in TableNames :
           IF file[t] = NoFile THEN rows[t] = <<>>
           ELSE \A data \in {FileData(t)} :
                    \E k \in 0..imports :
                        /\ Len(rows[t]) = k * Len(data)
                        /\ \A r \in 1..Len(rows[t]) :
                               rows[t][r] = [id |-> r,
                                             cells |-> data[((r - 1) % Len(data)) + 1]]
    /\ (call.op = "insert" /\ call.ret = "True") =>
           /\ Len(LastRows) = Len(call.before) + NRows(LastDf)
           /\ SubSeq(LastRows, 1, Len(call.before)) = call.before
    /\ (call.op = "insert" /\ call.ret = "False") => LastRows = call.before

\* the same two-row bills file imported twice: four rows, the receipt of
\* the first row stored a second time as the third
C11_Witness ==
    /\ call.op = "insert"
    /\ call.table = "bills"
    /\ call.ret = "True"
    /\ NRows(LastDf) = 2
    /\ Len(rows["bills"]) = 4
    /\ rows["bills"][3].cells = rows["bills"][1].cells
    /\ rows["bills"][3].id = 3

-----------------------------------------------------------------------------
(* The readers.  A dataframe a reader returns is [cols |-> the column      *)
(* names, rows |-> its rows in order], a row a function from the column    *)
(* names to cells.  id and created_at, which no reader derives anything    *)
(* from, are left out of SELECT *.                                         *)

\* pd.DataFrame()
EmptyFrame == [cols |-> <<>>, rows |-> <<>>]

\* df.empty
Empty(df) == df.cols = <<>> \/ df.rows = <<>>

\* pd.read_sql_query("SELECT select FROM table", conn) on a table that exists
read_sql_query(select, column_mapping, table_rows) ==
    LET ColumnOf(db_col) ==
            CHOOSE i \in 1..Len(column_mapping) : column_mapping[i].col = db_col
    IN  [cols |-> select,
         rows |-> [r \in 1..Len(table_rows) |->
                      [c \in {select[i] : i \in 1..Len(select)} |->
                          table_rows[r].cells[ColumnOf(c)]]]]

\* an error the database raises on its own during a read: on connect, or
\* while the query runs
ReadFaults == {"none", "connect", "query"}

\* the exception the first two lines of a reader's try statement raise:
\* sqlite3.connect raises a sqlite3.Error, read_sql_query wraps the error of
\* the database (no such table, among others) in pd.errors.DatabaseError
ReadError(table_schema, fault) ==
    IF fault = "connect" THEN "sqlite3.Error"
    ELSE IF fault = "query" \/ table_schema = NoTable THEN "pd.errors.DatabaseError"
    ELSE "none"

\* readers that caught the errors of sqlite3 only
analysis_handlers_SqliteOnly == {"sqlite3.Error"}

\* the except clauses of get_all_bills and get_all_bill_details
all_handlers == {"pd.errors.DatabaseError", "sqlite3.Error", "Exception"}
\* the except clauses of the two readers for analysis
analysis_handlers == {"sqlite3.Error", "Exception"}

\* a try statement left by return df
Return(df) == [left |-> "return", df |-> df]

\* a try statement left by the exception exc: every except clause returns
\* pd.DataFrame(); an exception no clause names goes to the caller
Except(handlers, exc) ==
    IF exc \in handlers \/ "Exception" \in handlers
    THEN [left |-> "except", df |-> EmptyFrame]
    ELSE [left |-> "raise", df |-> EmptyFrame]

\* .astype(int) of a numeric cell
astype_int(x) == IF x.t = "num" THEN PyInt(x.v \div 10) ELSE x

\* the loop of lines 400-406 and 435-441 on one cell
DisplayCell(db_col, x) ==
    IF get_sql_type(db_col) = "REAL" THEN fillna(to_numeric(x), Num(0))
    ELSE IF get_sql_type(db_col) = "INTEGER" THEN astype_int(fillna(to_numeric(x), PyInt(0)))
    ELSE astype_str(fillna(x, Str(<<>>)))

\* lines 389-396: the payment date becomes a datetime (which text astype(str)
\* shows it as is left to pandas), the payment time a text
BillsDisplayCell(db_col, x) ==
    IF db_col = "payment_date"
    THEN (IF isstr(x) /\ to_datetime_generic(x.s) # NaT
          THEN [t |-> "datetime", date |-> to_datetime_generic(x.s), secs |-> 0]
          ELSE Str(<<>>))
    ELSE IF db_col = "payment_time"
    THEN (IF astype_str(x) = Str(Chars_nan) THEN Str(<<>>) ELSE astype_str(x))
    ELSE DisplayCell(db_col, x)

\* get_all_bills and get_all_bill_details
get_all(table_name, table_schema, table_rows, fault) ==
    LET mapping == MappingOf(table_name)
        exc == ReadError(table_schema, fault)
        df == read_sql_query(db_columns_ordered(mapping), mapping, table_rows)
        raises == \E r \in 1..Len(df.rows) : \E c \in DOMAIN df.rows[r] :
                      get_sql_type(c) = "INTEGER" /\ to_numeric(df.rows[r][c]).t = "inf"
    IN  IF exc # "none" THEN Except(all_handlers, exc)
        ELSE IF raises THEN Except(all_handlers, "ValueError")
        ELSE Return([cols |-> df.cols,
                     rows |-> [r \in 1..Len(df.rows) |->
                                  [c \in DOMAIN df.rows[r] |->
                                      IF table_name = "bills"
                                      THEN BillsDisplayCell(c, df.rows[r][c])
                                      ELSE DisplayCell(c, df.rows[r][c])]]])

\* pd.to_timedelta(x, errors='coerce') of hours:minutes:seconds, which is
\* the shape of every stored payment time: <<the seconds>>, or NaT.  The
\* fields are added up as they stand, whatever their size.
to_timedelta(x) ==
    LET f == IF isstr(x) THEN Fields(x.s, ":") ELSE <<>>
    IN  IF f # <<>> /\ (\A i \in 1..3 : f[i] # <<>> /\ AllDigits(f[i]))
        THEN <<3600 * ToInt(f[1]) + 60 * ToInt(f[2]) + ToInt(f[3])>>
        ELSE NaT

NextDay(dt) ==
    IF dt[3] < DaysIn(dt[2], dt[1]) THEN <<dt[1], dt[2], dt[3] + 1>>
    ELSE IF dt[2] < 12 THEN <<dt[1], dt[2] + 1, 1>>
    ELSE <<dt[1] + 1, 1, 1>>

RECURSIVE AddDays(_, _)
AddDays(dt, n) == IF n = 0 THEN dt ELSE AddDays(NextDay(dt), n - 1)

\* line 499: payment_date_dt + payment_time_td
DatetimePlus(dt, seconds) ==
    [t |-> "datetime", date |-> AddDays(dt, seconds \div 86400), secs |-> seconds % 86400]

BillsSelect ==
    <<"payment_date", "payment_time", "receipt_number", "total_final_bill",
      "seat_amount", "payment_type", "branch">>

\* lines 510-537 on one cell
BillsAnalysisCell(c, x) ==
    IF c = "total_final_bill" THEN fillna(to_numeric(x), Num(0))
    ELSE IF c = "seat_amount" THEN astype_int(fillna(to_numeric(x), PyInt(0)))
    ELSE IF c \in {"receipt_number", "payment_type", "branch"}
    THEN astype_str(fillna(x, Str(<<>>)))
    ELSE x

\* line 491, df.dropna(subset=['payment_date_dt', 'payment_time_td']):
\* whether the row stays
dropna(date_dt, time_td) == date_dt # NaT /\ time_td # NaT

get_bills_for_analysis(table_schema, table_rows, fault) ==
    LET exc == ReadError(table_schema, fault)
        df == read_sql_query(BillsSelect, BILLS_COLUMN_MAPPING, table_rows)
        date_dt(row) == IF isstr(row["payment_date"])
                        THEN to_datetime_ymd(row["payment_date"].s) ELSE NaT
        time_td(row) == to_timedelta(fillna(row["payment_time"], Str(ZeroTime)))
        Stays(row) == dropna(date_dt(row), time_td(row))
        df_cleaned == SelectSeq(df.rows, Stays)
        raises == \E r \in 1..Len(df_cleaned) :
                      to_numeric(df_cleaned[r]["seat_amount"]).t = "inf"
    IN  IF exc # "none" THEN Except(analysis_handlers, exc)
        ELSE IF Empty(df) THEN Return(EmptyFrame)
        ELSE IF df_cleaned = <<>> THEN Return(EmptyFrame)
        ELSE IF raises THEN Except(analysis_handlers, "ValueError")
        ELSE Return([cols |-> BillsSelect \o <<"full_datetime">>,
                     rows |-> [r \in 1..Len(df_cleaned) |->
                                  [c \in DOMAIN df_cleaned[r] \cup {"full_datetime"} |->
                                      IF c = "full_datetime"
                                      THEN DatetimePlus(date_dt(df_cleaned[r]),
                                                        time_td(df_cleaned[r])[1])
                                      ELSE BillsAnalysisCell(c, df_cleaned[r][c])]]])

DetailsSelect ==
    <<"receipt_number", "menu_name", "quantity", "price_per_unit",
      "discounted_price", "summary_price", "discount_by_item">>

\* lines 569-590 on one cell
DetailsAnalysisCell(c, x) ==
    IF c \in {"receipt_number", "menu_name"} THEN astype_str(fillna(x, Str(<<>>)))
    ELSE fillna(to_numeric(x), Num(0))

get_bill_details_for_analysis(table_schema, table_rows, fault) ==
    LET exc == ReadError(table_schema, fault)
        df_details == read_sql_query(DetailsSelect, DETAIL_BILLS_COLUMN_MAPPING, table_rows)
        coerced == [r \in 1..Len(df_details.rows) |->
                       [c \in DOMAIN df_details.rows[r] |->
                           DetailsAnalysisCell(c, df_details.rows[r][c])]]
        Named(row) == row["menu_name"] # Str(<<>>)
    IN  IF exc # "none" THEN Except(analysis_handlers, exc)
        ELSE IF Empty(df_details) THEN Return(EmptyFrame)
        ELSE Return([cols |-> DetailsSelect, rows |-> SelectSeq(coerced, Named)])

\* sorted(S) of a set of texts, in the order of str on the characters of
\* the receipt numbers and menu names
Sorted(S) ==
    LET AsciiOrder == <<".">> \o DigitSeq \o UpperAlpha \o LowerAlpha
        Ord(c) == CHOOSE i \in 1..Len(AsciiOrder) : AsciiOrder[i] = c
        StrLess(a, b) ==
            \E k \in 1..(Len(a) + 1) :
                /\ k <= Len(b)
                /\ SubSeq(a, 1, k - 1) = SubSeq(b, 1, k - 1)
                /\ (k = Len(a) + 1 \/ Ord(a[k]) < Ord(b[k]))
    IN  [i \in 1..Cardinality(S) |->
            CHOOSE x \in S : Cardinality({y \in S : StrLess(y, x)}) = i - 1]

\* whether from mlxtend.preprocessing import TransactionEncoder finds the
\* package, which the installation may lack
Encoders == {"mlxtend", "ImportError"}

\* a basket that excluded nothing
isin_Nothing(menu_name, exclude_items) == FALSE

\* line 622, df_details['menu_name'].isin(exclude_items), for one row
isin(menu_name, exclude_items) == menu_name \in exclude_items

\* a basket with one transaction per line item
groupby_PerRow(receipt_numbers) == receipt_numbers

\* line 629, groupby('receipt_number'): the keys of the groups, sorted
groupby(receipt_numbers) ==
    Sorted({receipt_numbers[r] : r \in 1..Len(receipt_numbers)})

\* get_basket_data; details is what its call of
\* get_bill_details_for_analysis came to.  The matrix has one row per
\* receipt number in the order groupby sorts them, one column per menu name
\* in the order TransactionEncoder sorts them.
get_basket_data(details, exclude_items, encoder) ==
    LET df_details == details.df
        Kept(row) == ~isin(row["menu_name"].s, exclude_items)
        df_filtered == SelectSeq(df_details.rows, Kept)
        Items(receipt) == {df_filtered[r]["menu_name"].s :
                               r \in {q \in 1..Len(df_filtered) :
                                          df_filtered[q]["receipt_number"].s = receipt}}
        receipts == groupby([r \in 1..Len(df_filtered) |->
                                df_filtered[r]["receipt_number"].s])
        columns == Sorted({df_filtered[r]["menu_name"].s : r \in 1..Len(df_filtered)})
    IN  IF details.left = "raise" THEN details
        ELSE IF Empty(df_details) THEN Return(EmptyFrame)
        ELSE IF df_filtered = <<>> THEN Return(EmptyFrame)
        ELSE IF encoder = "ImportError" THEN Except({"ImportError", "Exception"}, encoder)
        ELSE Return([cols |-> columns,
                     rows |-> [i \in 1..Len(receipts) |->
                                  [m \in {columns[j] : j \in 1..Len(columns)} |->
                                      m \in Items(receipts[i])]]])

-----------------------------------------------------------------------------
(* The application reading the store: every run of the script creates the *)
(* tables, an import button inserts its file, and the pages call the       *)
(* readers.  What a reader returned is kept in res, its call in arg.       *)

InitRead ==
    /\ arg = [fn |-> "none"]
    /\ res = <<>>
    /\ res2 = <<>>
    /\ pc = "idle"
    /\ schema = [t \in TableNames |-> NoTable]
    /\ rows = [t \in TableNames |-> <<>>]
    /\ file \in ReadFiles
    /\ call = NoCall
    /\ imports = 0
    /\ conns = {}
    /\ session_state = <<>>

GetAll(table_name) ==
    /\ pc = "idle"
    /\ \E fault \in ReadFaults :
       \E out \in {get_all(table_name, schema[table_name], rows[table_name], fault)} :
        /\ arg' = [fn |-> "get_all", table |-> table_name, fault |-> fault]
        /\ res' = out
        /\ conns' = Scoped(conns, "get_all", fault = "connect", out.left)
    /\ pc' = "read"
    /\ UNCHANGED <<res2, schema, rows, file, call, imports, session_state>>

get_all_bills == GetAll("bills")

get_all_bill_details == GetAll("bill_details")

BillsForAnalysis ==
    /\ pc = "idle"
    /\ \E fault \in ReadFaults :
       \E out \in {get_bills_for_analysis(schema["bills"], rows["bills"], fault)} :
        /\ arg' = [fn |-> "get_bills_for_analysis", table |-> "bills", fault |-> fault]
        /\ res' = out
        /\ conns' = Scoped(conns, "get_bills_for_analysis", fault = "connect", out.left)
    /\ pc' = "read"
    /\ UNCHANGED <<res2, schema, rows, file, call, imports, session_state>>

BillDetailsForAnalysis ==
    /\ pc = "idle"
    /\ \E fault \in ReadFaults :
       \E out \in {get_bill_details_for_analysis(schema["bill_details"],
                                                 rows["bill_details"], fault)} :
        /\ arg' = [fn |-> "get_bill_details_for_analysis", table |-> "bill_details",
                   fault |-> fault]
        /\ res' = out
        /\ conns' = Scoped(conns, "get_bill_details_for_analysis", fault = "connect",
                           out.left)
    /\ pc' = "read"
    /\ UNCHANGED <<res2, schema, rows, file, call, imports, session_state>>

\* the names the page offers to exclude
ExcludeLists == SUBSET {Chars_Tea, Chars_Pie}

BasketData ==
    /\ pc = "idle"
    /\ \E fault \in ReadFaults, exclude_items \in ExcludeLists, encoder \in Encoders :
       \E details \in {get_bill_details_for_analysis(schema["bill_details"],
                                                     rows["bill_details"], fault)} :
        /\ arg' = [fn |-> "get_basket_data", table |-> "bill_details", fault |-> fault,
                   exclude_items |-> exclude_items, encoder |-> encoder]
        /\ res' = get_basket_data(details, exclude_items, encoder)
        /\ conns' = Scoped(conns, "get_bill_details_for_analysis", fault = "connect",
                           details.left)
    /\ pc' = "read"
    /\ UNCHANGED <<res2, schema, rows, file, call, imports, session_state>>

NextRead ==
    \/ create_bills_table
    \/ create_bill_details_table
    \/ insert_bills_data
    \/ insert_bill_details_data
    \/ get_all_bills
    \/ get_all_bill_details
    \/ BillsForAnalysis
    \/ BillDetailsForAnalysis
    \/ BasketData

SpecRead == InitRead /\ [][NextRead]_vars

\* C12: every operation on the database (creating a table, an import, each
\* reader) has closed the connection it opened when it returns, whether it
\* returned normally, returned early or met an exception: between
\* operations no connection is open.
C12_ScopedConnection == conns = {}

\* a reader that met an error of the database after it had connected, and an
\* import that failed at a row
C12_Witness ==
    /\ pc = "read" /\ arg.fault = "query" /\ res.left = "except" /\ conns = {}
    /\ call.op = "insert" /\ call.ret = "False" /\ call.fault.kind = "execute"

\* the time of day a stored text HH:MM:SS spells, in seconds after
\* midnight: <<seconds>>, or NaT when the text is no time of day
TimeOfDay(x) ==
    LET f == IF isstr(x) THEN Fields(x.s, ":") ELSE <<>>
    IN  IF /\ f # <<>>
           /\ \A i \in 1..3 : Len(f[i]) = 2 /\ AllDigits(f[i])
           /\ ToInt(f[1]) < 24 /\ ToInt(f[2]) < 60 /\ ToInt(f[3]) < 60
        THEN <<3600 * ToInt(f[1]) + 60 * ToInt(f[2]) + ToInt(f[3])>>
        ELSE NaT

\* the date a stored text YYYY-MM-DD spells, or NaT
IsoDate(x) == IF isstr(x) THEN to_datetime_ymd(x.s) ELSE NaT

\* the stored cell of a column of the bills table
BillsCell(row, db_col) ==
    row.cells[CHOOSE i \in 1..Len(BILLS_COLUMN_MAPPING) :
                  BILLS_COLUMN_MAPPING[i].col = db_col]

\* a call of get_bills_for_analysis the database let through
BillsRead ==
    /\ pc = "read"
    /\ arg.fn = "get_bills_for_analysis"
    /\ arg.fault = "none"
    /\ schema["bills"] # NoTable

\* C13: get_bills_for_analysis returns exactly the stored bills rows whose
\* payment_date is an ISO date and whose payment_time is a time of day, in
\* their order, each with full_datetime on that date at that time of day;
\* a row whose date or time does not parse is absent.
C13_BillsForAnalysis ==
    BillsRead =>
        LET Parses(row) == /\ IsoDate(BillsCell(row, "payment_date")) # NaT
                           /\ TimeOfDay(BillsCell(row, "payment_time")) # NaT
            expected == SelectSeq(rows["bills"], Parses)
        IN  /\ res.left = "return"
            /\ Len(res.df.rows) = Len(expected)
            /\ \A r \in 1..Len(expected) :
                   /\ res.df.rows[r]["payment_date"] = BillsCell(expected[r], "payment_date")
                   /\ res.df.rows[r]["payment_time"] = BillsCell(expected[r], "payment_time")
                   /\ res.df.rows[r]["receipt_number"] =
                          BillsCell(expected[r], "receipt_number")
                   /\ res.df.rows[r]["full_datetime"] =
                          [t |-> "datetime",
                           date |-> IsoDate(BillsCell(expected[r], "payment_date")),
                           secs |-> TimeOfDay(BillsCell(expected[r], "payment_time"))[1]]

\* a call of get_bill_details_for_analysis the database let through
DetailsRead ==
    /\ pc = "read"
    /\ arg.fn = "get_bill_details_for_analysis"
    /\ arg.fault = "none"
    /\ schema["bill_details"] # NoTable

\* the menu name the file gave the line item stored as row r of
\* bill_details: Null when the file has no such column
SourceMenuName(r) ==
    LET df == file["bill_details"][1]
        i == CHOOSE k \in 1..Len(DETAIL_BILLS_COLUMN_MAPPING) :
                 DETAIL_BILLS_COLUMN_MAPPING[k].col = "menu_name"
        m == Matches(df, DETAIL_BILLS_COLUMN_MAPPING)[i]
    IN  IF m = 0 THEN Null ELSE df.data[m][((r - 1) % NRows(df)) + 1]

\* C14: get_bill_details_for_analysis returns exactly the stored line items
\* that have a menu name, in their order: no returned row stands for a line
\* item whose menu name in the file was empty, null or absent, and every
\* line item with a real menu name is returned under that name with its
\* numeric columns as numbers.
C14_DetailsForAnalysis ==
    DetailsRead =>
        LET Real(r) == isstr(SourceMenuName(r)) /\ SourceMenuName(r).s # <<>>
            expected == SelectSeq([r \in 1..Len(rows["bill_details"]) |-> r], Real)
        IN  /\ res.left = "return"
            /\ Len(res.df.rows) = Len(expected)
            /\ \A k \in 1..Len(expected) :
                   /\ res.df.rows[k]["menu_name"] = SourceMenuName(expected[k])
                   /\ \A c \in {"quantity", "price_per_unit", "discounted_price",
                                "summary_price", "discount_by_item"} :
                          res.df.rows[k][c].t = "num"

\* a call of get_basket_data the database let through, with mlxtend
\* installed
BasketRead ==
    /\ pc = "read"
    /\ arg.fn = "get_basket_data"
    /\ arg.fault = "none"
    /\ arg.encoder = "mlxtend"
    /\ schema["bill_details"] # NoTable

\* the line items get_bill_details_for_analysis hands the basket, less the
\* excluded ones, as pairs of receipt number and menu name
FilteredItems ==
    LET items == get_bill_details_for_analysis(schema["bill_details"],
                                               rows["bill_details"], "none").df.rows
    IN  {<<items[r]["receipt_number"].s, items[r]["menu_name"].s>> :
             r \in {q \in 1..Len(items) : items[q]["menu_name"].s \notin arg.exclude_items}}

FilteredReceipts == {item[1] : item \in FilteredItems}
FilteredMenuNames == {item[2] : item \in FilteredItems}

\* C15: the basket matrix has exactly one row per distinct receipt number of
\* the filtered line items, and the cell of a receipt and a menu name is set
\* if and only if some filtered line item has that receipt and that name: an
\* item listed or imported several times gives one flag, whatever its
\* quantity.
C15_BasketPresence ==
    (BasketRead /\ FilteredItems # {}) =>
        /\ res.left = "return"
        /\ Len(res.df.rows) = Cardinality(FilteredReceipts)
        /\ \E receipt \in [1..Len(res.df.rows) -> FilteredReceipts] :
               /\ \A i, j \in 1..Len(res.df.rows) : receipt[i] = receipt[j] => i = j
               /\ \A i \in 1..Len(res.df.rows) :
                      /\ DOMAIN res.df.rows[i] = FilteredMenuNames
                      /\ \A m \in FilteredMenuNames :
                             res.df.rows[i][m] = (<<receipt[i], m>> \in FilteredItems)

\* a file of six line items imported twice: receipt R1 lists Tea twice in
\* each import and Pie once, receipt R2 lists Tea only
C15_Witness ==
    /\ BasketRead
    /\ arg.exclude_items = {}
    /\ Len(rows["bill_details"]) = 6 * MaxImports
    /\ FilteredItems = {<<Chars_R1, Chars_Tea>>, <<Chars_R1, Chars_Pie>>,
                        <<Chars_R1, Chars_nan>>, <<Chars_R2, Chars_Tea>>}
    /\ Len(res.df.rows) = 2
    /\ res.df.rows[1][Chars_Pie] /\ ~res.df.rows[2][Chars_Pie]

\* C16: for every list of excluded names the columns of the basket matrix
\* are exactly the distinct menu names of the line items that are not
\* excluded, each once; no excluded name is a column, a receipt all of whose
\* items are excluded has no row, and when every item is excluded the result
\* is an empty table.
C16_BasketExclusion ==
    BasketRead =>
        /\ res.left = "return"
        /\ {res.df.cols[j] : j \in 1..Len(res.df.cols)} = FilteredMenuNames
        /\ Len(res.df.cols) = Cardinality(FilteredMenuNames)
        /\ \A j \in 1..Len(res.df.cols) : res.df.cols[j] \notin arg.exclude_items
        /\ Len(res.df.rows) = Cardinality(FilteredReceipts)
        /\ FilteredItems = {} => res.df = EmptyFrame

\* Tea excluded: receipt R2, which lists nothing else, has no row
C16_Witness ==
    /\ BasketRead
    /\ arg.exclude_items = {Chars_Tea}
    /\ \E r \in 1..Len(rows["bill_details"]) : SourceMenuName(r) = Str(Chars_Tea)
    /\ res.df.cols = <<Chars_Pie>>
    /\ Len(res.df.rows) = 1

\* the index of db_col in the bills mapping
BillsColumn(db_col) ==
    CHOOSE i \in 1..Len(BILLS_COLUMN_MAPPING) : BILLS_COLUMN_MAPPING[i].col = db_col

\* a text that is a date in none of the formats
Malformed(x) ==
    /\ isstr(x)
    /\ to_datetime_generic(x.s) = NaT
    /\ \A n \in 1..Len(DateFormats) : to_datetime_format(x.s, DateFormats[n]) = NaT

\* an import into the empty bills table of a file of one row or more that
\* has a payment date column and a total column and no infinite seat amount
EndToEndImport ==
    /\ CleanImport
    /\ call.table = "bills"
    /\ call.before = <<>>
    /\ NRows(LastDf) >= 1
    /\ \A match \in {Matches(LastDf, BILLS_COLUMN_MAPPING)} :
           /\ match[BillsColumn("payment_date")] # 0
           /\ match[BillsColumn("total_final_bill")] # 0
           /\ ~AstypeIntRaises(LastDf, BILLS_COLUMN_MAPPING, match)

\* C17: an import into the empty bills table of N rows, some with a
\* malformed payment date and some with a valid numeric total, returns True
\* and leaves exactly N stored rows; a malformed date is stored as the empty
\* string in its row, which is not dropped, and a valid numeric total is
\* stored as the number it spells.
C17_EndToEnd ==
    EndToEndImport =>
        \A match \in {Matches(LastDf, BILLS_COLUMN_MAPPING)} :
            LET date(r) == LastDf.data[match[BillsColumn("payment_date")]][r]
                total(r) == LastDf.data[match[BillsColumn("total_final_bill")]][r]
            IN  /\ call.ret = "True"
                /\ Len(rows["bills"]) = NRows(LastDf)
                /\ \A r \in 1..NRows(LastDf) :
                       /\ Malformed(date(r)) =>
                              BillsCell(rows["bills"][r], "payment_date") = Str(<<>>)
                       /\ total(r).t = "num" =>
                              BillsCell(rows["bills"][r], "total_final_bill") = total(r)
                       /\ total(r) = Str(Chars_12_5) =>
                              BillsCell(rows["bills"][r], "total_final_bill") = Num(125)

\* two rows: the first with the total 12.5 and a date, the second with the
\* date abc
C17_Witness ==
    /\ EndToEndImport
    /\ NRows(LastDf) = 2
    /\ call.ret = "True"
    /\ BillsCell(rows["bills"][1], "total_final_bill") = Num(125)
    /\ BillsCell(rows["bills"][1], "payment_date") = Str(Chars_ymd)
    /\ \A match \in {Matches(LastDf, BILLS_COLUMN_MAPPING)} :
           LastDf.data[match[BillsColumn("payment_date")]][2] = Str(Chars_abc)
    /\ BillsCell(rows["bills"][2], "payment_date") = Str(<<>>)

\* a read that met a failure: the database refused the connection or the
\* query, the table is missing, or mlxtend is
FailedRead ==
    \/ arg.fault # "none"
    \/ schema[arg.table] = NoTable
    \/ (arg.fn = "get_basket_data" /\ arg.encoder = "ImportError")

\* C18: no reader raises to its caller; when the database is unavailable,
\* the table is missing or any step fails the reader returns the empty
\* dataframe, and on a table without rows it returns a table without rows.
\* An import that meets a failure says so by returning False.
C18_ReadersDegrade ==
    /\ pc = "read" =>
           /\ res.left # "raise"
           /\ FailedRead => res.df = EmptyFrame
           /\ rows[arg.table] = <<>> => Empty(res.df)
    /\ (call.op = "insert" /\ (call.fault # NoFault \/ ~call.existed)) =>
           call.ret = "False"

\* get_bills_for_analysis on a database without the bills table: the
\* DatabaseError of the query is caught and the empty dataframe returned
C18_Witness ==
    /\ pc = "read"
    /\ arg.fn = "get_bills_for_analysis"
    /\ arg.fault = "none"
    /\ schema["bills"] = NoTable
    /\ res = [left |-> "except", df |-> EmptyFrame]

\* C19: the two tables are independent.  An import of line items that meets
\* no fault of the database succeeds or fails by its file alone, whether or
\* not the bills table holds a row with the same receipt number; and an
\* import into one table, successful or failed, leaves every row of the
\* other table as it was.
C19_TablesIndependent ==
    /\ [](CleanImport =>
              (call.ret = "True" <=> ~df_transformed(LastDf, LastMapping).raises))
    /\ [][imports' # imports =>
              \A t \in TableNames : t # call'.table => rows'[t] = rows[t]]_vars

\* line items of receipt R1 stored while the bills table holds no row, and
\* line items of receipt R1 stored after the bill of receipt R1
C19_Witness ==
    /\ call.op = "insert" /\ call.table = "bill_details" /\ call.ret = "True"
    /\ NewRows # <<>>
    /\ LET receipt(mapping, row) ==
               row.cells[CHOOSE i \in 1..Len(mapping) : mapping[i].col = "receipt_number"]
       IN  /\ receipt(DETAIL_BILLS_COLUMN_MAPPING, NewRows[1]) = Str(Chars_R1)
           /\ \/ rows["bills"] = <<>>
              \/ receipt(BILLS_COLUMN_MAPPING, rows["bills"][1]) = Str(Chars_R1)

\* the stored cell of a column of a table
StoredCell(table_name, row, db_col) ==
    row.cells[CHOOSE i \in 1..Len(MappingOf(table_name)) :
                  MappingOf(table_name)[i].col = db_col]

\* a text of the form HH:MM:SS: two digits, colon, two digits, colon, two
\* digits
IsHHMMSS(x) ==
    /\ isstr(x)
    /\ Len(x.s) = 8
    /\ \A i \in {1, 2, 4, 5, 7, 8} : IsDigit(x.s[i])
    /\ x.s[3] = ":" /\ x.s[6] = ":"

\* a text YYYY-MM-DD that is a day of the calendar
IsIsoDate(x) ==
    /\ isstr(x)
    /\ Len(x.s) = 10
    /\ x.s[5] = "-" /\ x.s[8] = "-"
    /\ \A i \in {1, 2, 3, 4, 6, 7, 9, 10} : IsDigit(x.s[i])
    /\ ValidDay(ToInt(SubSeq(x.s, 1, 4)), ToInt(SubSeq(x.s, 6, 7)), ToInt(SubSeq(x.s, 9, 10)))

\* C22: in every state of the store, after any sequence of imports, every
\* stored payment_date is the empty string or a calendar date written
\* YYYY-MM-DD, and every stored payment_time is a text of the form HH:MM:SS,
\* whatever was uploaded.
C22_CanonicalFormats ==
    \A t \in TableNames : \A r \in 1..Len(rows[t]) :
        /\ \/ StoredCell(t, rows[t][r], "payment_date") = Str(<<>>)
           \/ IsIsoDate(StoredCell(t, rows[t][r], "payment_date"))
        /\ IsHHMMSS(StoredCell(t, rows[t][r], "payment_time"))


-----------------------------------------------------------------------------
(* app.py: the dashboard.  streamlit runs the whole script once when a      *)
(* session opens and once more at every interaction; st.session_state is   *)
(* what a session keeps between its runs.  A button is True only in the     *)
(* run its press caused, so a run has at most one pressed button.           *)

NoSession == <<>>

ButtonTable(pressed) ==
    IF pressed = "import_bills_btn" THEN "bills" ELSE "bill_details"

\* the two uploaders hold a file each
AppFiles ==
    {[t \in TableNames |->
         IF t = "bills" THEN <<MakeDf(BillsReadProbes, pattern, MaxRows)>>
                        ELSE <<DefaultUpload(t)>>] :
        pattern \in Patterns}

Overview_EveryRun(session, pressed, loaded) == loaded

\* lines 89-97: the refresh button reloads both tables; a session that has
\* no 'bills_data' yet loads them; every other run keeps what it has
Overview(session, pressed, loaded) ==
    IF pressed = "refresh" \/ session = NoSession THEN loaded ELSE session

InitApp ==
    /\ arg = [fn |-> "none"]
    /\ res = <<>>
    /\ res2 = <<>>
    /\ pc = "idle"
    /\ schema = [t \in TableNames |-> NoTable]
    /\ rows = [t \in TableNames |-> <<>>]
    /\ file \in AppFiles
    /\ call = NoCall
    /\ imports = 0
    /\ conns = {}
    /\ session_state = NoSession

\* One run of the script: both tables are created (35-36), the pressed
\* import button inserts its file (58-62, 76-80), the overview tables are
\* reloaded or kept (89-97), and the analysis reads the bills (121).
Run(pressed) ==
    /\ pc = "idle"
    /\ (pressed = "first") <=> (session_state = NoSession)
    /\ pressed \in {"import_bills_btn", "import_details_btn"} => imports < MaxImports
    /\ \E created \in {[t \in TableNames |->
                           create_table_from_mapping(MappingOf(t), schema[t], failed[t])] :
                          failed \in [TableNames -> BOOLEAN]} :
       \E out \in {IF pressed \in {"import_bills_btn", "import_details_btn"}
                   THEN insert_data_from_df(file[ButtonTable(pressed)][1],
                                            ButtonTable(pressed),
                                            MappingOf(ButtonTable(pressed)),
                                            created[ButtonTable(pressed)],
                                            rows[ButtonTable(pressed)])
                   ELSE [f \in {NoFault} |->
                            [rows |-> rows[ButtonTable(pressed)], ret |-> "None",
                             pending |-> 0]]} :
       \E fault \in DOMAIN out :
       \E stored \in {TablesAfter(rows, ButtonTable(pressed), out[fault].rows)} :
       \E loads \in {pressed = "refresh" \/ session_state = NoSession} :
       \E loaded \in {[t \in TableNames |-> [f \in ReadFaults |->
                          IF loads THEN get_all(t, created[t], stored[t], f).df
                                   ELSE EmptyFrame]]} :
       \E overview \in {[t \in TableNames |-> loaded[t][faults[t]]] :
                           faults \in [TableNames -> ReadFaults]} :
       \E read \in {[out |-> get_bills_for_analysis(created["bills"], stored["bills"], f),
                     refused |-> f = "connect"] : f \in ReadFaults} :
        /\ schema' = created
        /\ rows' = stored
        /\ call' = IF pressed \in {"import_bills_btn", "import_details_btn"}
                   THEN [op |-> "insert", table |-> ButtonTable(pressed),
                         ret |-> out[fault].ret,
                         before |-> rows[ButtonTable(pressed)], fault |-> fault,
                         existed |-> created[ButtonTable(pressed)] # NoTable,
                         pending |-> out[fault].pending]
                   ELSE call
        /\ imports' = IF pressed \in {"import_bills_btn", "import_details_btn"}
                      THEN imports + 1 ELSE imports
        /\ session_state' =
               Overview(session_state, pressed, overview)
        /\ res' = read.out
        /\ conns' = Scoped(conns, "get_bills_for_analysis", read.refused, read.out.left)
        /\ arg' = [fn |-> "run", pressed |-> pressed]
    /\ UNCHANGED <<res2, pc, file>>

FirstRun == Run("first")

PressImportBills == Run("import_bills_btn")

PressImportDetails == Run("import_details_btn")

PressRefresh == Run("refresh")

Rerun == Run("other")

NextApp ==
    \/ FirstRun
    \/ PressImportBills
    \/ PressImportDetails
    \/ PressRefresh
    \/ Rerun

SpecApp == InitApp /\ [][NextApp]_vars

\* the overview table of the store as it is now, read without a fault
StoreOverview(table_name) ==
    get_all(table_name, schema[table_name], rows[table_name], "none").df

\* what a read of the store as it is now can return: its rows, or the empty
\* table of a read that failed
OverviewReads(table_name) ==
    {get_all(table_name, schema[table_name], rows[table_name], f).df : f \in ReadFaults}

AnalysisReads ==
    {get_bills_for_analysis(schema["bills"], rows["bills"], f) : f \in ReadFaults}

\* C23: the overview tables in st.session_state change only in the first run
\* of a session and in a run the refresh button caused; in particular the run
\* of an import leaves them as they were.  The analysis table of every run is
\* read from the store as that run left it, and after a refresh the overview
\* tables are reads of the store as it is then.
C23_OverviewCached ==
    /\ [][session_state' # session_state =>
             (session_state = NoSession \/ arg'.pressed = "refresh")]_vars
    /\ [](arg.fn = "run" => res \in AnalysisReads)
    /\ []((arg.fn = "run" /\ arg.pressed = "refresh") =>
             \A t \in TableNames : session_state[t] \in OverviewReads(t))

\* a bills import succeeded: the overview still has no row, the store and the
\* analysis table of the same run have the new ones
C23_Witness ==
    /\ arg.fn = "run" /\ arg.pressed = "import_bills_btn"
    /\ call.ret = "True"
    /\ Len(rows["bills"]) > Len(call.before)
    /\ session_state # NoSession
    /\ session_state["bills"].rows = <<>>
    /\ session_state["bills"] # StoreOverview("bills")
    /\ res.df.rows # <<>>


\* the columns of an upload whose normalized header is a key of the mapping
MappedColumns(df, column_mapping) ==
    {i \in 1..Len(df.cols) :
        \E k \in 1..Len(column_mapping) :
            NormalizedHeaders(df)[i] = NormalizedKeys(column_mapping)[k]}

\* the upload with the columns S only, in the order they have
Columns(df, S) ==
    LET RECURSIVE Kept(_)
        Kept(i) == IF i = 0 THEN <<>>
                   ELSE IF i \in S THEN Append(Kept(i - 1), i) ELSE Kept(i - 1)
        kept == Kept(Len(df.cols))
    IN  [cols |-> [c \in 1..Len(kept) |-> df.cols[kept[c]]],
         data |-> [c \in 1..Len(kept) |-> df.data[kept[c]]],
         n |-> df.n]

\* an upload with one more column, header and cells given, at position at
WithColumn(df, at, header, cells) ==
    [cols |-> SubSeq(df.cols, 1, at - 1) \o <<header>> \o SubSeq(df.cols, at, Len(df.cols)),
     data |-> SubSeq(df.data, 1, at - 1) \o <<cells>> \o SubSeq(df.data, at, Len(df.data)),
     n |-> df.n]

\* uploads that agree with df on every mapped column: df without its other
\* columns, and that with a column no mapping knows at any place, holding
\* one value or another
SameMapped(df, column_mapping) ==
    LET mapped == Columns(df, MappedColumns(df, column_mapping))
    IN  {mapped} \cup
        {WithColumn(mapped, at, Chars_Cashier, [r \in 1..df.n |-> x]) :
            at \in 1..(Len(mapped.cols) + 1), x \in {Null, Str(Chars_R1)}}

\* what the transformation makes of the uploads that agree with an upload
\* of Spec on every mapped column
SameMappedFrames ==
    [t \in TableNames |->
        [df \in Uploads(t) \cup {DefaultUpload(t)} |->
            {TransformedFrame(other, MappingOf(t)) : other \in SameMapped(df, MappingOf(t))}]]

\* C24: an import stores the rows and returns the value that the import of
\* any upload with the same mapped columns stores and returns: the columns
\* no mapping knows, whether they are there, where they stand and what they
\* hold, change neither.
C24_UnmappedNoInfluence ==
    call.op = "insert" =>
        \A frame \in SameMappedFrames[call.table][file[call.table][1]] :
        \A out \in {InsertFrame(frame,
                                IF call.existed THEN schema[call.table] ELSE NoTable,
                                call.before, call.fault)} :
            /\ out.rows = rows[call.table]
            /\ out.ret = call.ret

\* a file with a column no mapping knows was imported and its rows stored
C24_Witness ==
    /\ call.op = "insert"
    /\ call.ret = "True"
    /\ Len(rows[call.table]) > Len(call.before)
    /\ MappedColumns(file[call.table][1], MappingOf(call.table))
           # 1..Len(file[call.table][1].cols)


\* the schema CREATE TABLE gives a table
TableDef(table_name) ==
    [i \in 1..Len(MappingOf(table_name)) |-> ColumnDef(MappingOf(table_name)[i].col)]

\* C25: a step that is no import is a call of create_bills_table or
\* create_bill_details_table: it changes no stored row, leaves a table that
\* exists with its schema and gives a table that does not exist its schema or
\* none; no step changes the schema of a table that exists.  The call never
\* leaves by an exception, and an import into a table whose creation failed
\* returns False and stores nothing.
C25_CreateIdempotent ==
    /\ [][imports' = imports =>
             /\ rows' = rows
             /\ \A t \in TableNames :
                    \/ schema'[t] = schema[t]
                    \/ schema[t] = NoTable /\ schema'[t] = TableDef(t)]_vars
    /\ [][\A t \in TableNames : schema[t] # NoTable => schema'[t] = schema[t]]_vars
    /\ [](pc # "raised")
    /\ []((call.op = "insert" /\ ~call.existed) =>
             (call.ret = "False" /\ rows[call.table] = call.before))

\* one table exists and holds rows; the import into the other, which was
\* never created, returned False
C25_Witness ==
    /\ call.op = "insert"
    /\ ~call.existed
    /\ call.ret = "False"
    /\ schema[call.table] = NoTable
    /\ \E t \in TableNames \ {call.table} : schema[t] # NoTable /\ rows[t] # <<>>

====
